---------------------------- MODULE Spec2Model ----------------------------
(***************************************************************************)
(* A model of the encrypted audit store of the DKA calculator API:         *)
(*   - modules/encrypt.js and decryptData (modules/decrypt.js): envelope   *)
(*     encryption of a JSON record (AES-256-GCM, key wrapped with RSA-OAEP)*)
(*   - decryptTable (modules/decrypt.js): phase 1 copies the decrypted      *)
(*     calculate rows into the decrypt table, phase 2 merges the latest    *)
(*     update row of each auditID into it                                  *)
(*   - outputStreamlined (modules/decrypt.js): grouping by patientNumber,  *)
(*     the 24 hour window, ranking, grading and the export rows.           *)
(*                                                                         *)
(* Five specifications share the variables:                                *)
(*   SpecCipher      encrypt / tamper / decryptData on one envelope        *)
(*   Spec            the stores, the requests that fill them, decrypt()    *)
(*   SpecBatch       decrypt() over stored rows that cannot be opened      *)
(*   SpecHashRace    requests for a patient hash in flight together        *)
(*   SpecStreamline  outputStreamlined over the contents of the decrypt    *)
(*                   table                                                 *)
(***************************************************************************)
EXTENDS Integers, Sequences, FiniteSets, TLC

VARIABLES
    \* ---- one envelope under test (SpecCipher)
    cPc,        \* "start" | "sealed" | "opened"
    cPlain,     \* the record handed to encrypt(), or NoRecord for a foreign envelope
    cOrig,      \* the envelope as encrypt() returned it
    cEnv,       \* the envelope as stored (possibly changed since)
    cChanged,   \* the field changed since sealing, or "none"
    cResult,    \* what the call of decryptData did: [threw, value]
    \* ---- the stores (AuditRecordStore)
    calculate,    \* tbl_data_v2: sequence of rows, in insertion order
    update,       \* tbl_update_v2: sequence of rows, in insertion order
    decryptTbl,   \* tbl_decrypt: sequence of rows, in insertion order
    streamlined,  \* the streamlined export table: sequence of rows
    \* ---- the requests
    scope,        \* how many requests of each route, and how many store failures,
                  \* this behaviour has at most
    handled,      \* how many requests of each route have been handled, and how
                  \* many store operations have failed
    request,      \* the last request to /calculate, /update or
                  \* /addRetrospectivePatientHash and the status it was answered with
    hashing,      \* the requests to /addRetrospectivePatientHash that passed the
                  \* checks of the handler and wait for insertHashData
    \* ---- one call of decrypt()
    pc,             \* "idle" | "phase2" | "streamline": what the call does next
    run,            \* the last call: its arguments, the status GET /decrypt answered,
                    \* the size of the calculate table it read, the decrypt table and
                    \* the size of the streamlined table before it, the update rows
                    \* phase 2 wrote, where a store operation failed, whether the
                    \* promise of decrypt() is pending, resolved or rejected, and
                    \* the phases the call has run, in order
    patientHashMap, \* the Map of decryptTable: sequence of hashes, number = position
    readRows,       \* the rows outputStreamlined read in its last call
    emitted,        \* what outputStreamlined inserted in its last call, each with
                    \* the row of the decrypt table it was made from
    runs            \* the calls of decryptTable that completed, oldest first: the
                    \* arguments, the sizes of the calculate and update tables read
                    \* (the tables only grow), the decrypt table before and after

cipherVars == <<cPc, cPlain, cOrig, cEnv, cChanged, cResult>>
storeVars  == <<calculate, update, decryptTbl, streamlined>>
httpVars   == <<scope, handled, request, hashing>>
runVars    == <<pc, run, patientHashMap, readRows, emitted, runs>>
vars       == <<cipherVars, storeVars, httpVars, runVars>>

(***************************************************************************)
(* JavaScript values.  An atom is [t |-> typeof, v |-> text]; a record     *)
(* (plain object) is a function from its own keys to atoms.                *)
(***************************************************************************)
Undefined == [t |-> "undefined", v |-> ""]
Null      == [t |-> "null", v |-> ""]
True      == [t |-> "boolean", v |-> "true"]
False     == [t |-> "boolean", v |-> "false"]
NaN       == [t |-> "number", v |-> "NaN"]
Num(s)    == [t |-> "number", v |-> s]
Str(s)    == [t |-> "string", v |-> s]
\* a string whose characters matter (hex, base64): c is their sequence
Chars(c)  == [t |-> "string", c |-> c]

\* obj.key: undefined for a key the object does not own
Get(obj, key) == IF key \in DOMAIN obj THEN obj[key] ELSE Undefined

\* the truthiness of an atom (ToBoolean)
Truthy(a) ==
    CASE a.t = "undefined" -> FALSE
      [] a.t = "null"      -> FALSE
      [] a.t = "boolean"   -> a.v = "true"
      [] a.t = "number"    -> a.v \notin {"0", "NaN"}
      [] a.t = "int"       -> a.n # 0
      [] a.t = "string"    -> a.v # ""
      [] OTHER             -> TRUE

\* a ?? b
Coalesce(a, b) == IF a.t \in {"undefined", "null"} THEN b ELSE a

(***************************************************************************)
(* JSON.  A JSON text of an object is the sequence of its members, each    *)
(* [k |-> key, q |-> quoted?, s |-> token text]: {"a":null,"b":"x"} is     *)
(* <<[k |-> "a", q |-> FALSE, s |-> "null"], [k |-> "b", q |-> TRUE, s |-> "x"]>>. *)
(***************************************************************************)
\* the order in which object literals of the program list their keys
KeyOrder ==
    << "a", "b",
       "protocolStartDatetime", "protocolEndDatetime", "preExistingDiabetes",
       "ethnicGroup", "cerebralOedemaConcern",
       "encryptedData", "encryptedKey", "iv", "authTag" >>

\* the tokens JSON.parse accepts without quotes: the literals, and the numbers
\* that occur in the model
Literals == {"null", "true", "false"}
Numerals == {"0", "1"}

\* JSON.stringify of one property value that writes strings without their quotes
JsonTokenUnquoted(key, a) ==
    [k |-> key, q |-> FALSE,
     s |-> IF a.t \in {"string", "boolean"} \/ (a.t = "number" /\ a.v # "NaN")
           THEN a.v ELSE "null"]

\* JSON.stringify of one property value; undefined-valued properties are left out
\* by JsonStringify, NaN and Infinity are written as null
JsonToken(key, a) ==
    CASE a.t = "string" -> [k |-> key, q |-> TRUE, s |-> a.v]
      [] a.t = "number" -> [k |-> key, q |-> FALSE,
                            s |-> IF a.v \in {"NaN", "Infinity"} THEN "null" ELSE a.v]
      [] a.t = "boolean" -> [k |-> key, q |-> FALSE, s |-> a.v]
      [] OTHER -> [k |-> key, q |-> FALSE, s |-> "null"]

RECURSIVE StringifyFrom(_, _)
StringifyFrom(obj, i) ==
    IF i > Len(KeyOrder) THEN <<>>
    ELSE LET key == KeyOrder[i]
         IN  IF key \in DOMAIN obj /\ obj[key] # Undefined
             THEN <<JsonToken(key, obj[key])>> \o StringifyFrom(obj, i + 1)
             ELSE StringifyFrom(obj, i + 1)

JsonStringify(obj) == StringifyFrom(obj, 1)

\* whether JSON.parse accepts the text
JsonValid(text) ==
    \A i \in 1..Len(text) : text[i].q \/ text[i].s \in Literals \cup Numerals

JsonValue(m) ==
    IF m.q THEN Str(m.s)
    ELSE CASE m.s = "null"  -> Null
           [] m.s = "true"  -> True
           [] m.s = "false" -> False
           [] OTHER         -> Num(m.s)

\* JSON.parse of a valid text of an object (the last of two equal keys wins)
JsonParse(text) ==
    [key \in {text[i].k : i \in 1..Len(text)} |->
        JsonValue(text[CHOOSE i \in 1..Len(text) :
            /\ text[i].k = key
            /\ \A j \in (i + 1)..Len(text) : text[j].k # key])]

(***************************************************************************)
(* Text encodings.  A string is a sequence of one-character strings, a     *)
(* Buffer a sequence of bytes (0..255).                                    *)
(***************************************************************************)
HexDigits == << "0", "1", "2", "3", "4", "5", "6", "7",
                "8", "9", "a", "b", "c", "d", "e", "f" >>

\* the value of a hex digit, either case; -1 for any other character
HexVal(c) ==
    CASE c = "0" -> 0  [] c = "1" -> 1  [] c = "2" -> 2  [] c = "3" -> 3
      [] c = "4" -> 4  [] c = "5" -> 5  [] c = "6" -> 6  [] c = "7" -> 7
      [] c = "8" -> 8  [] c = "9" -> 9
      [] c = "a" -> 10 [] c = "b" -> 11 [] c = "c" -> 12
      [] c = "d" -> 13 [] c = "e" -> 14 [] c = "f" -> 15
      [] c = "A" -> 10 [] c = "B" -> 11 [] c = "C" -> 12
      [] c = "D" -> 13 [] c = "E" -> 14 [] c = "F" -> 15
      [] OTHER -> -1

\* buf.toString("hex"): two lower-case digits per byte
RECURSIVE HexEncode(_)
HexEncode(bytes) ==
    IF bytes = <<>> THEN <<>>
    ELSE << HexDigits[(Head(bytes) \div 16) + 1], HexDigits[(Head(bytes) % 16) + 1] >>
         \o HexEncode(Tail(bytes))

\* Buffer.from(str, "hex"): pairs of digits of either case; decoding stops at
\* the first pair that is not two hex digits, and a trailing single digit is dropped
RECURSIVE HexDecode(_)
HexDecode(str) ==
    IF Len(str) < 2 THEN <<>>
    ELSE LET hi == HexVal(str[1])
             lo == HexVal(str[2])
         IN  IF hi < 0 \/ lo < 0 THEN <<>>
             ELSE <<16 * hi + lo>> \o HexDecode(SubSeq(str, 3, Len(str)))

Base64Digits ==
    << "A", "B", "C", "D", "E", "F", "G", "H", "I", "J", "K", "L", "M",
       "N", "O", "P", "Q", "R", "S", "T", "U", "V", "W", "X", "Y", "Z",
       "a", "b", "c", "d", "e", "f", "g", "h", "i", "j", "k", "l", "m",
       "n", "o", "p", "q", "r", "s", "t", "u", "v", "w", "x", "y", "z",
       "0", "1", "2", "3", "4", "5", "6", "7", "8", "9", "+", "/" >>

\* the value of a base64 digit; the URL-safe "-" and "_" are accepted for "+" and "/";
\* -1 for any other character
Base64Val(c) ==
    IF c = "-" THEN 62
    ELSE IF c = "_" THEN 63
    ELSE IF \E i \in 1..64 : Base64Digits[i] = c
         THEN (CHOOSE i \in 1..64 : Base64Digits[i] = c) - 1
         ELSE -1

\* buf.toString("base64")
RECURSIVE Base64Encode(_)
Base64Encode(bytes) ==
    IF bytes = <<>> THEN <<>>
    ELSE IF Len(bytes) = 1 THEN
        << Base64Digits[(bytes[1] \div 4) + 1],
           Base64Digits[((bytes[1] % 4) * 16) + 1], "=", "=" >>
    ELSE IF Len(bytes) = 2 THEN
        << Base64Digits[(bytes[1] \div 4) + 1],
           Base64Digits[((bytes[1] % 4) * 16 + bytes[2] \div 16) + 1],
           Base64Digits[((bytes[2] % 16) * 4) + 1], "=" >>
    ELSE
        << Base64Digits[(bytes[1] \div 4) + 1],
           Base64Digits[((bytes[1] % 4) * 16 + bytes[2] \div 16) + 1],
           Base64Digits[((bytes[2] % 16) * 4 + bytes[3] \div 64) + 1],
           Base64Digits[(bytes[3] % 64) + 1] >>
        \o Base64Encode(SubSeq(bytes, 4, Len(bytes)))

\* the digits of a base64 string up to the first "=", other characters skipped
RECURSIVE Base64Sextets(_)
Base64Sextets(str) ==
    IF str = <<>> \/ Head(str) = "=" THEN <<>>
    ELSE IF Base64Val(Head(str)) < 0 THEN Base64Sextets(Tail(str))
    ELSE <<Base64Val(Head(str))>> \o Base64Sextets(Tail(str))

RECURSIVE SextetsToBytes(_)
SextetsToBytes(d) ==
    IF Len(d) < 2 THEN <<>>
    ELSE IF Len(d) = 2 THEN << d[1] * 4 + d[2] \div 16 >>
    ELSE IF Len(d) = 3 THEN << d[1] * 4 + d[2] \div 16, (d[2] % 16) * 16 + d[3] \div 4 >>
    ELSE << d[1] * 4 + d[2] \div 16, (d[2] % 16) * 16 + d[3] \div 4, (d[3] % 4) * 64 + d[4] >>
         \o SextetsToBytes(SubSeq(d, 5, Len(d)))

\* Buffer.from(str, "base64"): lenient, as above
Base64Decode(str) == SextetsToBytes(Base64Sextets(str))

\* the strings that occur as keys' values in the model's JSON texts
StringTable ==
    << "null", "true", "false", "0", "1", "", "x",
       "2025-01-01T10:00:00Z", "2025-01-01T11:30:00Z",
       "2025-01-02T10:00:00Z", "2025-01-02T10:00:01Z", "not a date" >>

IndexIn(seq, x) == IF \E i \in 1..Len(seq) : seq[i] = x
                   THEN CHOOSE i \in 1..Len(seq) : seq[i] = x
                   ELSE 0

\* the bytes of a JSON text (two per member: the key, then the token), standing
\* for its UTF-8 encoding
RECURSIVE Utf8Encode(_)
Utf8Encode(text) ==
    IF text = <<>> THEN <<>>
    ELSE << IndexIn(KeyOrder, Head(text).k),
            2 * IndexIn(StringTable, Head(text).s) + (IF Head(text).q THEN 1 ELSE 0) >>
         \o Utf8Encode(Tail(text))

\* a member no JSON text has: what bytes that are not the encoding of a text decode to
Garbled == [k |-> "?", q |-> FALSE, s |-> "?"]

\* the text of a byte sequence; bytes that encode no JSON text give a text
\* JSON.parse rejects
RECURSIVE Utf8Decode(_)
Utf8Decode(bytes) ==
    IF bytes = <<>> THEN <<>>
    ELSE IF Len(bytes) = 1 THEN <<Garbled>>
    ELSE LET ki == bytes[1]
             si == bytes[2] \div 2
         IN  (IF ki \in 1..Len(KeyOrder) /\ si \in 1..Len(StringTable)
              THEN << [k |-> KeyOrder[ki], q |-> bytes[2] % 2 = 1, s |-> StringTable[si]] >>
              ELSE <<Garbled>>)
             \o Utf8Decode(SubSeq(bytes, 3, Len(bytes)))

(***************************************************************************)
(* The cipher.  node:crypto is modelled by a small cipher of the same      *)
(* shape: a counter-mode stream (the ciphertext is as long as the          *)
(* plaintext, and any ciphertext decrypts to some bytes), a 16 byte tag    *)
(* over key, IV and ciphertext that final() verifies, and a key wrap that  *)
(* unwraps only what was wrapped for the same key pair.                    *)
(***************************************************************************)
NumAesKeys == 2      \* the keys crypto.randomBytes(32) is drawn from
NumIvs     == 2      \* the IVs crypto.randomBytes(16) is drawn from
IvLen      == 16     \* bytes of an IV
TagLen     == 16     \* bytes of the tag cipher.getAuthTag() returns
OurKeyPair == 1      \* the key pair of process.env.rsaPublicKey / rsaPrivateKey
OtherKeyPair == OurKeyPair + 1

\* the tag lengths decipher.setAuthTag accepts when createDecipheriv was given
\* no authTagLength
GcmTagLengths == {4, 8, 12, 13, 14, 15, 16}

RandomIv(n) == [i \in 1..IvLen |-> 160 + n]

RECURSIVE WeightedFrom(_, _)
WeightedFrom(bytes, i) ==
    IF i > Len(bytes) THEN 0 ELSE (i * bytes[i] + WeightedFrom(bytes, i + 1)) % 257

\* a digest of a byte sequence that any change of one byte changes
Weighted(bytes) == WeightedFrom(bytes, 1)

GcmStream(key, iv, i) == (37 * key + Weighted(iv) + 11 * i) % 256

\* cipher.update + cipher.final: the ciphertext bytes
GcmEncryptBytes(key, iv, plain) ==
    [i \in 1..Len(plain) |-> (plain[i] + GcmStream(key, iv, i)) % 256]

\* decipher.update: the bytes the ciphertext decrypts to, authentic or not
GcmDecryptBytes(key, iv, ct) ==
    [i \in 1..Len(ct) |-> (ct[i] + 256 - GcmStream(key, iv, i)) % 256]

\* the full tag of (key, iv, ciphertext)
GcmTag(key, iv, ct) ==
    << (16 * key + 10) % 256, Len(iv), Weighted(iv) \div 256, Weighted(iv) % 256,
       Len(ct), Weighted(ct) \div 256, Weighted(ct) % 256 >>
    \o [i \in 1..(TagLen - 7) |-> 171]

\* crypto.publicEncrypt with OAEP: the wrapped key, for a key pair
RsaWrap(key, pair) == << key, 203, pair, (7 * key + 29 * pair + 5) % 256 >>

\* crypto.privateDecrypt with OAEP under our private key: the key, or a throw
RsaUnwrap(bytes) ==
    IF /\ Len(bytes) = 4
       /\ bytes[2] = 203
       /\ bytes[3] = OurKeyPair
       /\ bytes[4] = (7 * bytes[1] + 29 * bytes[3] + 5) % 256
    THEN [threw |-> FALSE, key |-> bytes[1]]
    ELSE [threw |-> TRUE, key |-> 0]

\* encryptDataWithAES, with the random key and IV as parameters
EncryptDataWithAES(data, key, iv) ==
    LET ct == GcmEncryptBytes(key, iv, Utf8Encode(JsonStringify(data)))
    IN  [encrypted |-> Chars(HexEncode(ct)), key |-> key, iv |-> Chars(HexEncode(iv)),
         authTag |-> Chars(HexEncode(GcmTag(key, iv, ct)))]

EncryptAESKeyWithRSA(aesKey) == Chars(Base64Encode(RsaWrap(aesKey, OurKeyPair)))

\* encrypt(data)
Encrypt(data, key, iv) ==
    LET aes == EncryptDataWithAES(data, key, iv)
    IN  [encryptedData |-> aes.encrypted, encryptedKey |-> EncryptAESKeyWithRSA(aes.key),
         iv |-> aes.iv, authTag |-> aes.authTag]

\* a string argument (Buffer.from throws a TypeError for undefined or null)
IsString(x) == x.t = "string"

\* the body of the try block of decryptData: [threw, value]
DecryptDataTry(encryptedAESKey, encryptedData, iv, authTag) ==
    IF ~IsString(encryptedAESKey) THEN [threw |-> TRUE, value |-> Null]  \* Buffer.from(undefined)
    ELSE LET unwrapped == RsaUnwrap(Base64Decode(encryptedAESKey.c))
    IN  IF unwrapped.threw THEN [threw |-> TRUE, value |-> Null]
        ELSE IF ~IsString(iv) THEN [threw |-> TRUE, value |-> Null]
        ELSE LET ivBytes == HexDecode(iv.c)
        IN  IF ivBytes = <<>> THEN [threw |-> TRUE, value |-> Null]   \* createDecipheriv: invalid IV
            ELSE IF ~IsString(authTag) THEN [threw |-> TRUE, value |-> Null]
            ELSE LET tag == HexDecode(authTag.c)
            IN  IF Len(tag) \notin GcmTagLengths
                THEN [threw |-> TRUE, value |-> Null]             \* setAuthTag: invalid length
                ELSE IF ~IsString(encryptedData) THEN [threw |-> TRUE, value |-> Null]
                ELSE LET ct    == HexDecode(encryptedData.c)
                         plain == GcmDecryptBytes(unwrapped.key, ivBytes, ct)  \* update()
                         full  == GcmTag(unwrapped.key, ivBytes, ct)
                     IN  IF tag # SubSeq(full, 1, Len(tag))
                         THEN [threw |-> TRUE, value |-> Null]    \* final(): tag mismatch
                         ELSE LET text == Utf8Decode(plain)
                              IN  IF ~JsonValid(text)
                                  THEN [threw |-> TRUE, value |-> Null]   \* JSON.parse
                                  ELSE [threw |-> FALSE, value |-> JsonParse(text)]

\* decryptData without its try/catch
DecryptDataNoCatch(encryptedAESKey, encryptedData, iv, authTag) ==
    DecryptDataTry(encryptedAESKey, encryptedData, iv, authTag)

\* decryptData: the catch turns every throw into a returned null
DecryptData(encryptedAESKey, encryptedData, iv, authTag) ==
    LET r == DecryptDataTry(encryptedAESKey, encryptedData, iv, authTag)
    IN  IF r.threw THEN [threw |-> FALSE, value |-> Null] ELSE r

(***************************************************************************)
(* SpecCipher: one envelope is sealed, possibly changed in one field, and  *)
(* handed to decryptData.                                                  *)
(***************************************************************************)
NoRecord == <<"no record">>
NoEnvelope == <<"no envelope">>
NoResult == [threw |-> FALSE, value |-> <<"not called">>]

EnvelopeFields == {"encryptedData", "encryptedKey", "iv", "authTag"}

\* the values of a property of a plaintext record
PlainAtoms == {Undefined, Null, True, NaN, Num("1"), Str("x"), Str("null")}
PlainRecords == [{"a", "b"} -> PlainAtoms]

\* a hex letter in the other case; any other character unchanged
ToggleCase(c) ==
    CASE c = "a" -> "A" [] c = "b" -> "B" [] c = "c" -> "C"
      [] c = "d" -> "D" [] c = "e" -> "E" [] c = "f" -> "F"
      [] c = "A" -> "a" [] c = "B" -> "b" [] c = "C" -> "c"
      [] c = "D" -> "d" [] c = "E" -> "e" [] c = "F" -> "f"
      [] OTHER -> c

\* the characters a stored character c is changed to: the same letter in the other
\* case, another hex digit, a base64 digit that is no hex digit, a character of
\* neither alphabet
TamperChars(c) == {ToggleCase(c), "0", "R", "!"} \ {c}

StoreInit ==
    /\ calculate = <<>>
    /\ update = <<>>
    /\ decryptTbl = <<>>
    /\ streamlined = <<>>

\* no store operation of the call has failed
NoFailure == [phase |-> "none", op |-> 0]

\* before the first call of decrypt()
NoRun == [decryptID |-> Undefined, centre |-> Undefined, includeTests |-> Undefined,
          status |-> 0, result |-> "none", calculateRows |-> 0, before |-> <<>>,
          streamlinedRows |-> 0, merged |-> {}, failed |-> NoFailure,
          phases |-> <<>>]

\* no request has been handled, no store operation has failed
NoneHandled == [calculate |-> 0, update |-> 0, hash |-> 0, decrypt |-> 0, faults |-> 0]

\* before the first request
NoRequest == [route |-> "none", auditID |-> Null, patientHash |-> Null, status |-> 0]

\* no request arrives
HttpIdle ==
    /\ scope = NoneHandled
    /\ handled = NoneHandled
    /\ request = NoRequest
    /\ hashing = {}

RunInit ==
    /\ pc = "idle"
    /\ run = NoRun
    /\ patientHashMap = <<>>
    /\ readRows = <<>>
    /\ emitted = <<>>
    /\ runs = <<>>

CipherInit ==
    /\ cPc = "start"
    /\ cPlain = NoRecord
    /\ cOrig = NoEnvelope
    /\ cEnv = NoEnvelope
    /\ cChanged = "none"
    /\ cResult = NoResult

\* encrypt(data) of modules/encrypt.js
CipherEncrypt ==
    /\ cPc = "start"
    /\ \E data \in PlainRecords, key \in 1..NumAesKeys, n \in 1..NumIvs :
          /\ cPlain' = data
          /\ cOrig' = Encrypt(data, key, RandomIv(n))
          /\ cEnv' = cOrig'
    /\ cPc' = "sealed"
    /\ UNCHANGED <<cChanged, cResult, storeVars, httpVars, runVars>>

\* an envelope encrypt() did not produce: sealed by another holder of the public
\* key around bytes that are no JSON text, or sealed for another key pair
CipherForeign ==
    /\ cPc = "start"
    /\ \E key \in 1..NumAesKeys, n \in 1..NumIvs, pair \in {OurKeyPair, OtherKeyPair} :
          LET iv == RandomIv(n)
              plain == IF pair = OurKeyPair THEN <<255>>
                       ELSE Utf8Encode(JsonStringify([a |-> True]))
              ct == GcmEncryptBytes(key, iv, plain)
          IN  cOrig' = [encryptedData |-> Chars(HexEncode(ct)),
                        encryptedKey |-> Chars(Base64Encode(RsaWrap(key, pair))),
                        iv |-> Chars(HexEncode(iv)),
                        authTag |-> Chars(HexEncode(GcmTag(key, iv, ct)))]
    /\ cEnv' = cOrig'
    /\ cPlain' = NoRecord
    /\ cPc' = "sealed"
    /\ UNCHANGED <<cChanged, cResult, storeVars, httpVars, runVars>>

\* one character of one field of the stored envelope is changed
CipherTamper ==
    /\ cPc = "sealed"
    /\ cChanged = "none"
    /\ cPlain # NoRecord
    /\ \E f \in EnvelopeFields :
          \E pos \in 1..Len(cEnv[f].c) :
            \E ch \in TamperChars(cEnv[f].c[pos]) :
             /\ cEnv' = [cEnv EXCEPT ![f].c[pos] = ch]
             /\ cChanged' = f
    /\ UNCHANGED <<cPc, cPlain, cOrig, cResult, storeVars, httpVars, runVars>>

\* decryptData(encryptedKey, encryptedData, iv, authTag)
CipherDecrypt ==
    /\ cPc = "sealed"
    /\ cResult' = DecryptData(cEnv.encryptedKey, cEnv.encryptedData, cEnv.iv, cEnv.authTag)
    /\ cPc' = "opened"
    /\ UNCHANGED <<cPlain, cOrig, cEnv, cChanged, storeVars, httpVars, runVars>>

CipherNext == CipherEncrypt \/ CipherForeign \/ CipherTamper \/ CipherDecrypt

(***************************************************************************)
(* Claims about the envelope cipher (SpecCipher).                          *)
(***************************************************************************)
\* what JSON keeps of a record: its properties that are not undefined, NaN as null
JsonImage(rec) ==
    [key \in {k \in DOMAIN rec : rec[k] # Undefined} |->
        IF rec[key] = NaN THEN Null ELSE rec[key]]

JsonRepresentable(rec) == \A k \in DOMAIN rec : rec[k] \notin {Undefined, NaN}

Opened == cPc = "opened"
OpenedUnchanged == cPc = "opened" /\ cChanged = "none" /\ cPlain # NoRecord

\* C1 as claimed: for every plaintext record P, decryptData of encrypt(P) returns a
\* record equal to P.
C1_RoundTripEveryRecord == OpenedUnchanged => cResult.value = cPlain

\* C1 as amended: decryptData of encrypt(P) returns P for every record P whose
\* properties are JSON values (null, booleans, finite numbers, strings); in general it
\* returns P without its undefined-valued properties and with NaN replaced by null.
C1_RoundTripJson ==
    OpenedUnchanged =>
        /\ ~cResult.threw
        /\ cResult.value = JsonImage(cPlain)
        /\ (JsonRepresentable(cPlain) => cResult.value = cPlain)

\* a record with a string that reads like a literal and a number came back equal
C1_Witness ==
    /\ OpenedUnchanged
    /\ cPlain = [a |-> Str("null"), b |-> Num("1")]
    /\ cResult.value = cPlain

\* C2: for every envelope produced by encrypt, a change of any one of its four
\* fields makes decryptData return the failure value.
C2_TamperFails ==
    (cPc = "opened" /\ cChanged # "none") => cResult.value = Null

\* the three failures of decryptData, read off the stored envelope
UnwrapFails == RsaUnwrap(Base64Decode(cEnv.encryptedKey.c)).threw
TagCheckFails ==
    LET key == RsaUnwrap(Base64Decode(cEnv.encryptedKey.c)).key
        iv  == HexDecode(cEnv.iv.c)
        tag == HexDecode(cEnv.authTag.c)
        ct  == HexDecode(cEnv.encryptedData.c)
    IN  \/ Len(tag) \notin GcmTagLengths
        \/ tag # SubSeq(GcmTag(key, iv, ct), 1, Len(tag))
PlainNotJson ==
    LET key == RsaUnwrap(Base64Decode(cEnv.encryptedKey.c)).key
    IN  ~JsonValid(Utf8Decode(
            GcmDecryptBytes(key, HexDecode(cEnv.iv.c), HexDecode(cEnv.encryptedData.c))))

\* C3: decryptData fails closed: it never throws to its caller; when the key cannot
\* be unwrapped, the tag check fails or the plaintext is not JSON it returns null; and
\* what it returns is null or the complete record that was sealed, never anything else.
C3_FailsClosed ==
    Opened =>
        /\ ~cResult.threw
        /\ (UnwrapFails \/ TagCheckFails \/ PlainNotJson) => cResult.value = Null
        /\ cResult.value # Null => (cPlain # NoRecord /\ cResult.value = JsonImage(cPlain))

\* a changed ciphertext that decrypts to the text of another record, withheld because
\* the tag check failed
C3_Witness ==
    /\ Opened
    /\ cChanged = "encryptedData"
    /\ ~UnwrapFails /\ TagCheckFails /\ ~PlainNotJson
    /\ cResult.value = Null

InitCipher == CipherInit /\ StoreInit /\ HttpIdle /\ RunInit

SpecCipher == InitCipher /\ [][CipherNext]_vars

(***************************************************************************)
(* The stores.  A table is the sequence of its rows in insertion order; a  *)
(* row is a record of its columns.  Of the columns that are copied         *)
(* unchanged from the payloads (patientAge, pH, glucose, ...) the model    *)
(* keeps protocolStartDatetime, preExistingDiabetes and ethnicGroup, and   *)
(* of cerebralOedema its concern.  SQL NULL is Null, a number is IntVal(n), a *)
(* DATETIME is its number of seconds.  An INSERT appends a row, as         *)
(* written: the schema is not part of the repository and no unique key is  *)
(* assumed on any table.  The tables are those the deployed configuration  *)
(* names.                                                                  *)
(***************************************************************************)
MaxCalc == 2     \* requests to /calculate
MaxUpd  == 2     \* requests to /update
MaxHash == 1     \* requests to /addRetrospectivePatientHash
MaxRuns == 2     \* requests to GET /decrypt
MaxFaults == 1   \* store operations of decrypt() that fail

\* The workloads explored: several episodes, one call of decrypt() and a store
\* that may fail; several episodes and repeated calls of decrypt(); one episode,
\* several updates, and repeated calls; one episode that is given its patient
\* hash later, and repeated calls.
Scopes ==
    { [calculate |-> MaxCalc, update |-> MaxUpd - 1, hash |-> 0,
       decrypt |-> MaxRuns - 1, faults |-> MaxFaults],
      [calculate |-> MaxCalc, update |-> 0, hash |-> 0,
       decrypt |-> MaxRuns, faults |-> 0],
      [calculate |-> MaxCalc - 1, update |-> MaxUpd, hash |-> 0,
       decrypt |-> MaxRuns, faults |-> 0],
      [calculate |-> MaxCalc - 1, update |-> MaxUpd - 1, hash |-> MaxHash,
       decrypt |-> MaxRuns, faults |-> 0] }

HttpInit ==
    /\ scope \in Scopes
    /\ handled = NoneHandled
    /\ request = NoRequest
    /\ hashing = {}

IntVal(n) == [t |-> "int", n |-> n]

\* a JSON text in a TEXT column, and text that is not JSON
ColumnJson(obj) == [t |-> "text", json |-> TRUE, obj |-> obj]
ColumnGarbage == [t |-> "text", json |-> FALSE, obj |-> Null]

PatientHashes == {"h1", "h2"}
Centres == {"c1", "c2"}

\* rehashPatientHash: the salted second hash, one value per first hash
RehashPatientHash(h) == CASE h = "h1" -> "H1" [] h = "h2" -> "H2" [] OTHER -> "H?"

\* generateAuditID: an id no earlier row has
GenerateAuditID(n) == 100 + n

\* the auditIDs a request can name: those generateAuditID gives out
AuditIDs == {GenerateAuditID(i) : i \in 1..MaxCalc}

\* crypto.randomBytes in the requests: the n-th request draws the n-th key and IV
DrawKey(n) == 1 + (n % NumAesKeys)
DrawIv(n) == RandomIv(1 + (n % NumIvs))

RECURSIVE MaxStamp(_)
MaxStamp(rows) ==
    IF rows = <<>> THEN 0
    ELSE LET m == MaxStamp(Tail(rows))
         IN  IF Head(rows).serverDatetime > m THEN Head(rows).serverDatetime ELSE m

\* the latest CURRENT_TIMESTAMP the database has given out
LastStamp == IF MaxStamp(calculate) > MaxStamp(update)
             THEN MaxStamp(calculate) ELSE MaxStamp(update)

\* the protocol of the n-th episode starts at 10:00, that of a later one at 11:30
StartOf(n) == IF n = 1 THEN "2025-01-01T10:00:00Z" ELSE "2025-01-01T11:30:00Z"

\* the payloads /calculate encrypts for the n-th episode
CalcPayloads(n) ==
    { [protocolStartDatetime |-> Str(StartOf(n)), preExistingDiabetes |-> False,
       ethnicGroup |-> Str("x")] }

\* the payloads /update encrypts: without an end time and with a concern of
\* cerebral oedema, or with an end time and without the concern
UpdPayloads ==
    { [protocolEndDatetime |-> Undefined, preExistingDiabetes |-> True,
       ethnicGroup |-> Undefined, cerebralOedemaConcern |-> True],
      [protocolEndDatetime |-> Str("2025-01-01T11:30:00Z"), preExistingDiabetes |-> True,
       ethnicGroup |-> Undefined, cerebralOedemaConcern |-> False] }

\* POST /calculate of an episode that is not retrospective.  pass is the outcome
\* of checkWeightWithinLimit, errors whether calculateVariables reports errors.
\* Each failed check answers 400 through handleError and the handler goes on: it
\* stores the episode, and its own res.json then throws because a response has
\* been sent.  When both checks fail, the second handleError throws for the same
\* reason, before the episode is stored.
Calculate ==
    /\ handled.calculate < scope.calculate
    /\ \E data \in CalcPayloads(Len(calculate) + 1) :
        \E encryptedData \in {Encrypt(data, DrawKey(Len(calculate) + 1),
                                       DrawIv(Len(calculate) + 1))} :
         \E h \in {Undefined} \cup {Str(x) : x \in PatientHashes},
            c \in Centres, pass \in BOOLEAN, errors \in BOOLEAN :
          LET id == Len(calculate) + 1
              patientHash == IF Truthy(h) THEN Str(RehashPatientHash(h.v)) ELSE Null
              auditID == GenerateAuditID(id)
              answered400 == ~pass \/ errors
              thrown == ~pass /\ errors
          IN  /\ calculate' =
                    IF thrown THEN calculate
                    ELSE Append(calculate,
                             [id |-> id, episodeType |-> "real", auditID |-> auditID,
                              patientHash |-> patientHash, centre |-> c,
                              clientDatetime |-> Str(StartOf(id)),
                              serverDatetime |-> LastStamp + 1,
                              retrospectiveAuditData |-> Null,
                              retrospectivePatientHash |-> Null,
                              encryptedData |-> ColumnJson(encryptedData)])
              /\ request' = [route |-> "/calculate",
                             auditID |-> IF answered400 THEN Null ELSE IntVal(auditID),
                             patientHash |-> Null,
                             status |-> IF answered400 THEN 400 ELSE 200]
    /\ handled' = [handled EXCEPT !.calculate = @ + 1]
    /\ UNCHANGED <<cipherVars, update, decryptTbl, streamlined, scope, hashing, runVars>>

\* checkID: the calculate row of an audit ID
CheckID(auditID) ==
    IF \E i \in 1..Len(calculate) : calculate[i].auditID = auditID
    THEN calculate[CHOOSE i \in 1..Len(calculate) : calculate[i].auditID = auditID]
    ELSE Null

\* an /update that does not compare the submitted hash with the stored one
UpdateRejectionNoHashCheck(check, patientHash) ==
    IF check = Null THEN 401
    ELSE IF ~Truthy(check.patientHash) THEN 406
    ELSE 0

\* the status /update rejects a request with, 0 when it does not reject it
UpdateRejection(check, patientHash) ==
    IF check = Null THEN 401
    ELSE IF ~Truthy(check.patientHash) THEN 406
    ELSE IF check.patientHash # Str(RehashPatientHash(patientHash)) THEN 401
    ELSE 0

\* UPDATE calculate SET column = value WHERE auditID = ?
SetWhereAuditID(rows, auditID, column, value) ==
    [i \in 1..Len(rows) |->
        IF rows[i].auditID = auditID THEN [rows[i] EXCEPT ![column] = value]
        ELSE rows[i]]

\* POST /update: for an episode that has a patient hash, and when the submitted
\* hash matches it, the payload is encrypted and stored as a new update row and
\* the episode is marked; otherwise the request is answered 401 or 406
Update ==
    /\ handled.update < scope.update
    /\ \E data \in UpdPayloads :
        \E encryptedData \in {Encrypt(data, DrawKey(MaxCalc + Len(update) + 1),
                                       DrawIv(MaxCalc + Len(update) + 1))} :
         \E a \in AuditIDs, h \in PatientHashes, dt \in {0, 1} :
          LET check == CheckID(a)
              id == Len(update) + 1
              rejection == UpdateRejection(check, h)
          IN  /\ IF rejection # 0
                 THEN UNCHANGED <<calculate, update>>
                 ELSE /\ update' = Append(update,
                             [id |-> id, auditID |-> a,
                              serverDatetime |-> LastStamp + dt,
                              encryptedData |-> ColumnJson(encryptedData)])
                      /\ calculate' = SetWhereAuditID(calculate, a, "retrospectiveAuditData",
                                                      IntVal(LastStamp + dt))
              /\ request' = [route |-> "/update", auditID |-> IntVal(a),
                             patientHash |-> Str(h),
                             status |-> IF rejection # 0 THEN rejection ELSE 200]
    /\ handled' = [handled EXCEPT !.update = @ + 1]
    /\ UNCHANGED <<cipherVars, decryptTbl, streamlined, scope, hashing, runVars>>

\* the dates a request to /addRetrospectivePatientHash can give
StartDates == {"2025-01-01", "2025-01-02"}

\* getFullYear, getMonth and getDate of the two dates agree
SameDate(clientDatetime, protocolStartDate) ==
    protocolStartDate =
        CASE clientDatetime.v \in {"2025-01-01T10:00:00Z", "2025-01-01T11:30:00Z"}
                 -> "2025-01-01"
          [] OTHER -> "2025-01-02"

\* an /addRetrospectivePatientHash that does not look for a hash the episode has
HashRejectionOverwriting(check, centre, protocolStartDate) ==
    IF check = Null THEN 401
    ELSE IF check.centre # centre \/ ~SameDate(check.clientDatetime, protocolStartDate)
         THEN 401
    ELSE 0

\* the status /addRetrospectivePatientHash rejects a request with, 0 when it
\* does not reject it
HashRejection(check, centre, protocolStartDate) ==
    IF check = Null THEN 401
    ELSE IF Truthy(check.patientHash) THEN 401
    ELSE IF check.centre # centre \/ ~SameDate(check.clientDatetime, protocolStartDate)
         THEN 401
    ELSE 0

\* POST /addRetrospectivePatientHash: an episode without a patient hash, named
\* by its auditID, centre and date, is given the rehash of the submitted hash
AddRetrospectivePatientHash ==
    /\ handled.hash < scope.hash
    /\ \E a \in AuditIDs, h \in PatientHashes, c \in Centres, d \in StartDates :
          LET rejection == HashRejection(CheckID(a), c, d)
          IN  /\ calculate' =
                    IF rejection # 0 THEN calculate
                    ELSE SetWhereAuditID(
                             SetWhereAuditID(calculate, a, "patientHash",
                                             Str(RehashPatientHash(h))),
                             a, "retrospectivePatientHash", IntVal(LastStamp))
              /\ request' = [route |-> "/addRetrospectivePatientHash",
                             auditID |-> IntVal(a), patientHash |-> Str(h),
                             status |-> IF rejection # 0 THEN rejection ELSE 200]
    /\ handled' = [handled EXCEPT !.hash = @ + 1]
    /\ UNCHANGED <<cipherVars, update, decryptTbl, streamlined, scope, hashing, runVars>>

(***************************************************************************)
(* decryptTable.  Phase 1 reads the calculate rows the arguments select    *)
(* and inserts one decrypt row for each that decrypts; phase 2 reads the   *)
(* latest update row of each auditID and writes it over the decrypt rows   *)
(* of that auditID.  Each phase is one step: requests may arrive between   *)
(* the phases, not within one.  A store operation of a phase may fail; the *)
(* exception leaves decryptTable and decrypt(), whose promise rejects.     *)
(***************************************************************************)
\* the arguments of GET /decrypt
DecryptIDs == {Undefined, IntVal(GenerateAuditID(1))}
CentreArgs == {Undefined, Str("c1")}

\* The store operations of a phase are numbered from 1, the SELECT of the phase
\* being the first; the operation that fails is one of the first MaxOps, or none (0)
MaxOps == 2
FailPoints == 0..MaxOps

\* the store operation that comes next is the one that fails
StoreFails(st) == st.ops + 1 = st.failAt

\* decrypt() that goes on to outputStreamlined as soon as a phase has returned
NextPhaseSkipping(threw, next) == IF threw THEN "idle" ELSE "streamline"

\* a call that goes on to its next phase whether or not the phase threw
NextPhaseIgnoringFailure(threw, next) == next

\* await: an exception ends the call, otherwise the next phase follows
NextPhase(threw, next) == IF threw THEN "idle" ELSE next

MapHas(map, hash) == \E i \in 1..Len(map) : map[i] = hash

\* patientHashMap.get(hash): the number set last for the hash
MapGet(map, hash) ==
    CHOOSE i \in 1..Len(map) : map[i] = hash /\ \A j \in (i + 1)..Len(map) : map[j] # hash

\* patientHashMap.set(patientHash, patientHashMap.size + 1) for every row, known hash or not
MapSetAlways(map, hash) == Append(map, hash)

\* if (!patientHashMap.has(patientHash)) patientHashMap.set(patientHash, size + 1)
MapSetIfAbsent(map, hash) == IF MapHas(map, hash) THEN map ELSE Append(map, hash)

\* a row is numbered whether it has a patientHash or not
HasPatientHashAlways(patientHash) == TRUE

\* if (patientHash): the row has a patientHash to be numbered by
HasPatientHash(patientHash) == Truthy(patientHash)

\* SELECT ... FROM calculate [WHERE auditID = ?] [AND centre = ?]
SelectCalculate(decryptID, centre) ==
    SelectSeq(calculate, LAMBDA row :
        /\ Truthy(decryptID) => row.auditID = decryptID.n
        /\ Truthy(centre) => row.centre = centre.v)

\* the columns of a decrypt row the INSERT of phase 1 does not name
NoAudit ==
    [auditTableID |-> Null, auditProtocolEndDatetime |-> Null,
     auditPreExistingDiabetes |-> Null, auditEthnicGroup |-> Null,
     auditCerebralOedemaConcern |-> Null, auditServerDatetime |-> Null]

\* one pass of the loop of phase 1 over a calculate row; st is
\* [map, table, threw, ops, failAt]: threw once an exception has left the loop,
\* ops the store operations the phase has sent
Phase1Row(st, row) ==
    IF st.threw THEN st
    ELSE IF ~Truthy(row.encryptedData) THEN st
    ELSE IF ~row.encryptedData.json THEN st
    ELSE LET parsedData == row.encryptedData.obj
         IN  IF parsedData = Null THEN [st EXCEPT !.threw = TRUE]
             ELSE
             LET decryptedObject ==
                     DecryptData(Get(parsedData, "encryptedKey"),
                                 Get(parsedData, "encryptedData"),
                                 Get(parsedData, "iv"),
                                 Get(parsedData, "authTag")).value
             IN  IF decryptedObject = Null THEN st
                 ELSE
                 LET hashed == HasPatientHash(row.patientHash)
                     map == IF hashed THEN MapSetIfAbsent(st.map, row.patientHash.v)
                            ELSE st.map
                     patientNumber ==
                         IF hashed THEN IntVal(MapGet(map, row.patientHash.v))
                         ELSE Null
                     bound == [protocolStartDatetime |->
                                   Get(decryptedObject, "protocolStartDatetime"),
                               preExistingDiabetes |->
                                   Get(decryptedObject, "preExistingDiabetes"),
                               ethnicGroup |-> Get(decryptedObject, "ethnicGroup")]
                 IN  IF \E k \in DOMAIN bound : bound[k] = Undefined
                     THEN [st EXCEPT !.map = map, !.threw = TRUE]
                     ELSE IF StoreFails(st)
                     THEN [st EXCEPT !.map = map, !.threw = TRUE, !.ops = @ + 1]
                     ELSE [st EXCEPT
                             !.map = map,
                             !.ops = @ + 1,
                             !.table = Append(@,
                                 [id |-> row.id, episodeType |-> row.episodeType,
                                  auditID |-> row.auditID,
                                  patientNumber |-> patientNumber,
                                  centre |-> row.centre,
                                  serverDatetime |-> row.serverDatetime,
                                  protocolStartDatetime |-> bound.protocolStartDatetime,
                                  preExistingDiabetes |-> bound.preExistingDiabetes,
                                  ethnicGroup |-> bound.ethnicGroup,
                                  audit |-> NoAudit])]

RECURSIVE Phase1Rows(_, _)
Phase1Rows(rows, st) ==
    IF rows = <<>> THEN st
    ELSE Phase1Rows(Tail(rows), Phase1Row(st, Head(rows)))

\* where the call failed, if a store operation of the phase did
FailedIn(phase, threw, failAt) ==
    IF threw /\ failAt # 0 THEN [phase |-> phase, op |-> failAt] ELSE NoFailure

\* GET /decrypt: the handler starts decrypt(decryptID, centre) without waiting for
\* it and answers 200; the call then runs phase 1 of decryptTable
Phase1 ==
    /\ pc = "idle"
    /\ handled.decrypt < scope.decrypt
    /\ \E decryptID \in DecryptIDs, centre \in CentreArgs, failAt \in FailPoints :
          /\ failAt # 0 => handled.faults < scope.faults
          /\ \E st \in {IF failAt = 1
                        THEN [map |-> <<>>, table |-> decryptTbl, threw |-> TRUE,
                              ops |-> 1, failAt |-> failAt]
                        ELSE Phase1Rows(SelectCalculate(decryptID, centre),
                                        [map |-> <<>>, table |-> decryptTbl,
                                         threw |-> FALSE, ops |-> 1,
                                         failAt |-> failAt])} :
              /\ failAt # 0 => st.ops >= failAt
              /\ decryptTbl' = st.table
              /\ patientHashMap' = st.map
              /\ run' = [decryptID |-> decryptID, centre |-> centre,
                         includeTests |-> Undefined, status |-> 200,
                         result |-> IF st.threw THEN "rejected" ELSE "pending",
                         calculateRows |-> Len(calculate), before |-> decryptTbl,
                         streamlinedRows |-> Len(streamlined), merged |-> {},
                         failed |-> FailedIn("phase1", st.threw, failAt),
                         phases |-> <<"phase1">>]
              /\ pc' = NextPhase(st.threw, "phase2")
              /\ handled' = [handled EXCEPT !.decrypt = @ + 1,
                                            !.faults = @ + (IF failAt # 0 THEN 1 ELSE 0)]
    /\ UNCHANGED <<cipherVars, calculate, update, streamlined, scope, hashing, request,
                   readRows, emitted, runs>>

\* a phase 2 that reads no update row
SelectNoUpdates(decryptID) == <<>>

\* the update rows phase 2 reads: of each auditID (or of the one asked for) the
\* rows with the greatest serverDatetime
SelectLatestUpdates(decryptID) ==
    SelectSeq(update, LAMBDA row :
        /\ Truthy(decryptID) => row.auditID = decryptID.n
        /\ \A i \in 1..Len(update) :
              update[i].auditID = row.auditID =>
                  update[i].serverDatetime <= row.serverDatetime)

\* the orders in which a SELECT without ORDER BY can return its rows
Orders(rows) ==
    { [i \in 1..Len(rows) |-> rows[f[i]]] :
        f \in {g \in [1..Len(rows) -> 1..Len(rows)] :
                  \A i, j \in 1..Len(rows) : g[i] = g[j] => i = j} }

\* one pass of the loop of phase 2 over an update row; st is
\* [table, threw, ops, failAt, merged], merged the ids of the update rows written
\* into the decrypt table
Phase2Row(st, row) ==
    IF st.threw THEN st
    ELSE IF ~Truthy(row.encryptedData) THEN st
    ELSE IF ~row.encryptedData.json THEN st
    ELSE LET parsedData == row.encryptedData.obj
         IN  IF parsedData = Null THEN [st EXCEPT !.threw = TRUE]
             ELSE
             LET decryptedObject ==
                     DecryptData(Get(parsedData, "encryptedKey"),
                                 Get(parsedData, "encryptedData"),
                                 Get(parsedData, "iv"),
                                 Get(parsedData, "authTag")).value
             IN  IF decryptedObject = Null THEN st
                 ELSE IF StoreFails(st) THEN [st EXCEPT !.threw = TRUE, !.ops = @ + 1]
                 ELSE
                 LET endDatetime == Get(decryptedObject, "protocolEndDatetime")
                     audit ==
                         [auditTableID |-> IntVal(row.id),
                          auditProtocolEndDatetime |->
                              Coalesce(IF Truthy(endDatetime) THEN endDatetime
                                       ELSE Get(decryptedObject, "protocolStartDatetime"),
                                       Null),
                          auditPreExistingDiabetes |->
                              Coalesce(Get(decryptedObject, "preExistingDiabetes"), Null),
                          auditEthnicGroup |->
                              Coalesce(Get(decryptedObject, "ethnicGroup"), Null),
                          auditCerebralOedemaConcern |->
                              Coalesce(Get(decryptedObject, "cerebralOedemaConcern"), Null),
                          auditServerDatetime |-> IntVal(row.serverDatetime)]
                 IN  [st EXCEPT
                         !.ops = @ + 1,
                         !.merged = @ \cup {row.id},
                         !.table = [i \in 1..Len(@) |->
                                       IF @[i].auditID = row.auditID
                                       THEN [@[i] EXCEPT !.audit = audit]
                                       ELSE @[i]]]

RECURSIVE Phase2Rows(_, _)
Phase2Rows(rows, st) ==
    IF rows = <<>> THEN st
    ELSE Phase2Rows(Tail(rows), Phase2Row(st, Head(rows)))

\* phase 2 of decryptTable; the call of decryptTable is complete after it
Phase2 ==
    /\ pc = "phase2"
    /\ \E failAt \in FailPoints, rows \in Orders(SelectLatestUpdates(run.decryptID)) :
          /\ failAt # 0 => handled.faults < scope.faults
          /\ \E st \in {IF failAt = 1
                        THEN [table |-> decryptTbl, threw |-> TRUE, ops |-> 1,
                              failAt |-> failAt, merged |-> {}]
                        ELSE Phase2Rows(rows, [table |-> decryptTbl, threw |-> FALSE,
                                               ops |-> 1, failAt |-> failAt,
                                               merged |-> {}])} :
              /\ failAt # 0 => st.ops >= failAt
              /\ decryptTbl' = st.table
              /\ run' = [run EXCEPT
                            !.merged = st.merged,
                            !.result = IF st.threw THEN "rejected" ELSE "pending",
                            !.failed = FailedIn("phase2", st.threw, failAt),
                            !.phases = Append(@, "phase2")]
              /\ runs' = IF st.threw THEN runs
                         ELSE Append(runs,
                                  [decryptID |-> run.decryptID, centre |-> run.centre,
                                   calculateRows |-> run.calculateRows,
                                   updateRows |-> Len(update), merged |-> st.merged,
                                   before |-> run.before, after |-> st.table])
              /\ pc' = NextPhase(st.threw, "streamline")
              /\ handled' = [handled EXCEPT
                                !.faults = @ + (IF failAt # 0 THEN 1 ELSE 0)]
    /\ UNCHANGED <<cipherVars, calculate, update, streamlined, scope, hashing, request,
                   patientHashMap, readRows, emitted>>

(***************************************************************************)
(* outputStreamlined.  Times are seconds since 1970-01-01T00:00:00Z: the   *)
(* strings of the model carry no fraction of a second, so that a span in   *)
(* hours is at most 24 exactly when the span in seconds is at most 86400.  *)
(***************************************************************************)
WindowHours == 24
SecondsPerHour == 3600

\* new Date(value): whether the date is valid, and its getTime() in seconds
NewDate(a) ==
    CASE a.t = "null" -> [valid |-> TRUE, time |-> 0]
      [] a.t = "string" /\ a.v = "2025-01-01T10:00:00Z" -> [valid |-> TRUE, time |-> 1735725600]
      [] a.t = "string" /\ a.v = "2025-01-01T11:30:00Z" -> [valid |-> TRUE, time |-> 1735731000]
      [] a.t = "string" /\ a.v = "2025-01-02T10:00:00Z" -> [valid |-> TRUE, time |-> 1735812000]
      [] a.t = "string" /\ a.v = "2025-01-02T10:00:01Z" -> [valid |-> TRUE, time |-> 1735812001]
      [] OTHER -> [valid |-> FALSE, time |-> 0]

\* a comparator that looks at serverDatetime alone
CompareByDatetimeOnly(a, b) == b.serverDatetime - a.serverDatetime

\* the comparator of the sort: records with audit data first, then the later
\* serverDatetime first
CompareRecords(a, b) ==
    LET aHasAudit == a.audit.auditTableID # Null
        bHasAudit == b.audit.auditTableID # Null
    IN  IF aHasAudit /\ ~bHasAudit THEN -1
        ELSE IF ~aHasAudit /\ bHasAudit THEN 1
        ELSE b.serverDatetime - a.serverDatetime

\* x put into a sorted array behind every element that does not sort after it
RECURSIVE InsertSorted(_, _)
InsertSorted(sorted, x) ==
    IF sorted = <<>> THEN <<x>>
    ELSE IF CompareRecords(Head(sorted), x) <= 0
         THEN <<Head(sorted)>> \o InsertSorted(Tail(sorted), x)
         ELSE <<x>> \o sorted

\* Array.prototype.sort with the comparator: a stable sort
RECURSIVE ArraySortFrom(_, _, _)
ArraySortFrom(array, i, sorted) ==
    IF i > Len(array) THEN sorted
    ELSE ArraySortFrom(array, i + 1, InsertSorted(sorted, array[i]))

ArraySort(array) == ArraySortFrom(array, 1, <<>>)

SeqMin(times) == CHOOSE i \in 1..Len(times) : \A j \in 1..Len(times) : times[i] <= times[j]
SeqMax(times) == CHOOSE i \in 1..Len(times) : \A j \in 1..Len(times) : times[i] >= times[j]

\* a window test that treats the boundary as outside
Within24Strict(group) ==
    LET dates == [i \in 1..Len(group) |-> NewDate(group[i].protocolStartDatetime)]
        valid == SelectSeq(dates, LAMBDA d : d.valid)
        datetimes == [i \in 1..Len(valid) |-> valid[i].time]
    IN  IF Len(datetimes) > 1
        THEN datetimes[SeqMax(datetimes)] - datetimes[SeqMin(datetimes)]
                 < WindowHours * SecondsPerHour
        ELSE Len(datetimes) = 1

\* a window test that finds every group within 24 hours
Within24Always(group) == TRUE

\* whether the group counts as within 24 hours
Within24(group) ==
    LET dates == [i \in 1..Len(group) |-> NewDate(group[i].protocolStartDatetime)]
        valid == SelectSeq(dates, LAMBDA d : d.valid)
        datetimes == [i \in 1..Len(valid) |-> valid[i].time]
    IN  IF Len(datetimes) > 1
        THEN datetimes[SeqMax(datetimes)] - datetimes[SeqMin(datetimes)]
                 <= WindowHours * SecondsPerHour
        ELSE Len(datetimes) = 1

\* a grade that ignores the audit data
DataGradeAlwaysB(record) == "B"

\* the data grade of a record that has a patientNumber
DataGrade(record) == IF Truthy(record.audit.auditTableID) THEN "A" ELSE "B"

\* the row inserted for a record of a group
GroupedRow(record, deduplicatedAuditIDs) ==
    [dataGrade |-> DataGrade(record),
     patientNumber |-> record.patientNumber,
     auditID |-> record.auditID,
     protocolStartDatetime |-> record.protocolStartDatetime,
     protocolEndDatetime |-> record.audit.auditProtocolEndDatetime,
     preExistingDiabetes |->
         IF Truthy(record.audit.auditPreExistingDiabetes)
         THEN record.audit.auditPreExistingDiabetes ELSE record.preExistingDiabetes,
     ethnicGroup |->
         IF Truthy(record.audit.auditEthnicGroup)
         THEN record.audit.auditEthnicGroup ELSE record.ethnicGroup,
     cerebralOedemaConcern |-> record.audit.auditCerebralOedemaConcern,
     centre |-> record.centre,
     deduplicatedAuditIDs |-> deduplicatedAuditIDs]

\* the row inserted for a record without a patientNumber
UngroupedRow(record) ==
    [dataGrade |-> "C",
     patientNumber |-> Null,
     auditID |-> record.auditID,
     protocolStartDatetime |-> record.protocolStartDatetime,
     protocolEndDatetime |-> Null,
     preExistingDiabetes |-> record.preExistingDiabetes,
     ethnicGroup |-> record.ethnicGroup,
     cerebralOedemaConcern |-> Null,
     centre |-> record.centre,
     deduplicatedAuditIDs |-> Null]

\* a list that does not leave out the auditID of the record itself
AllAuditIDs(group, record) ==
    [t |-> "json", list |-> [i \in 1..Len(group) |-> group[i].auditID]]

\* JSON.stringify of the auditIDs of the group other than the record's
OtherAuditIDs(group, record) ==
    LET others == SelectSeq(group, LAMBDA r : r.auditID # record.auditID)
    IN  [t |-> "json", list |-> [i \in 1..Len(others) |-> others[i].auditID]]

\* what is inserted for one group: each row with the record it was made from
ProcessGroup(group0) ==
    LET dedup == Len(group0) > 1 /\ Within24(group0)
        group == IF dedup THEN ArraySort(group0) ELSE group0
        recordsToInsert == IF dedup THEN <<group[1]>> ELSE group
    IN  [i \in 1..Len(recordsToInsert) |->
            LET record == recordsToInsert[i]
                deduplicatedAuditIDs ==
                    IF Len(recordsToInsert) = 1 /\ Len(group) > 1
                    THEN OtherAuditIDs(group, record)
                    ELSE Null
            IN  [row |-> GroupedRow(record, deduplicatedAuditIDs), from |-> record]]

\* the groups in the order of for ... in: ascending patientNumber
RECURSIVE ProcessGroups(_, _)
ProcessGroups(rows, numbers) ==
    IF numbers = {} THEN <<>>
    ELSE LET n == CHOOSE m \in numbers : \A k \in numbers : m <= k
             group == SelectSeq(rows, LAMBDA r : r.patientNumber = IntVal(n))
         IN  ProcessGroup(group) \o ProcessGroups(rows, numbers \ {n})

\* everything one call inserts
StreamlineRows(rows) ==
    LET nullPatientRows == SelectSeq(rows, LAMBDA r : r.patientNumber = Null)
        nonNullRows == SelectSeq(rows, LAMBDA r : r.patientNumber # Null)
        numbers == {nonNullRows[i].patientNumber.n : i \in 1..Len(nonNullRows)}
    IN  ProcessGroups(nonNullRows, numbers)
        \o [i \in 1..Len(nullPatientRows) |->
               [row |-> UngroupedRow(nullPatientRows[i]), from |-> nullPatientRows[i]]]

\* outputStreamlined(includeTests): the rows are inserted one by one, up to the
\* store operation that fails
OutputStreamlined ==
    /\ pc = "streamline"
    /\ \E failAt \in FailPoints :
         /\ failAt # 0 => handled.faults < scope.faults
         /\ \E rows \in {IF ~Truthy(run.includeTests)
                         THEN SelectSeq(decryptTbl, LAMBDA r : r.episodeType = "real")
                         ELSE decryptTbl} :
              \E all \in {StreamlineRows(rows)} :
                \E out \in {IF failAt = 0 THEN all
                            ELSE IF failAt = 1 THEN <<>>
                            ELSE SubSeq(all, 1, failAt - 2)} :
                  /\ failAt >= 2 => failAt - 1 <= Len(all)
                  /\ readRows' = IF failAt = 1 THEN <<>> ELSE rows
                  /\ emitted' = out
                  /\ streamlined' = streamlined \o [i \in 1..Len(out) |-> out[i].row]
         /\ run' = [run EXCEPT
                       !.result = IF failAt # 0 THEN "rejected" ELSE "resolved",
                       !.failed = FailedIn("streamline", failAt # 0, failAt),
                       !.phases = Append(@, "streamline")]
         /\ pc' = NextPhase(failAt # 0, "idle")
         /\ handled' = [handled EXCEPT !.faults = @ + (IF failAt # 0 THEN 1 ELSE 0)]
    /\ UNCHANGED <<cipherVars, calculate, update, decryptTbl, scope, hashing, request,
                   patientHashMap, runs>>

(***************************************************************************)
(* Spec: the requests and the calls of decrypt() in any order.             *)
(***************************************************************************)
Init == CipherInit /\ StoreInit /\ HttpInit /\ RunInit

Next ==
    \/ Calculate
    \/ Update
    \/ AddRetrospectivePatientHash
    \/ Phase1
    \/ Phase2
    \/ OutputStreamlined

Spec == Init /\ [][Next]_vars

(***************************************************************************)
(* SpecBatch: one call of decrypt() over calculate and update tables that  *)
(* also hold rows whose envelope is missing or cannot be opened.           *)
(***************************************************************************)
MaxBatch == 2    \* rows of the calculate table, and of the update table

\* one call of decrypt(), no request to the other routes, no store failure
BatchScope == [calculate |-> 0, update |-> 0, hash |-> 0, decrypt |-> 1, faults |-> 0]

\* another hex digit in the place of the first character of a hex string
ChangeFirst(chars) == [chars EXCEPT !.c[1] = IF @ = "0" THEN "1" ELSE "0"]

\* an envelope sealed for another key pair
ForeignEnvelope(data, key, iv) ==
    LET aes == EncryptDataWithAES(data, key, iv)
    IN  [encryptedData |-> aes.encrypted,
         encryptedKey |-> Chars(Base64Encode(RsaWrap(key, OtherKeyPair))),
         iv |-> aes.iv, authTag |-> aes.authTag]

\* what the encryptedData column of a stored row can hold: the envelope of the
\* record, or the same envelope with a changed ciphertext
StoredColumns(data, key, iv) ==
    LET env == Encrypt(data, key, iv)
    IN  { ColumnJson(env),
          ColumnJson([env EXCEPT !.encryptedData = ChangeFirst(@)]) }

\* ... or SQL NULL, a text that is no JSON, the JSON text null, an envelope
\* without its authTag, an envelope sealed for another key pair
UnreadableColumns(data, key, iv) ==
    LET env == Encrypt(data, key, iv)
    IN  { Null, ColumnGarbage, ColumnJson(Null),
          ColumnJson([f \in {"encryptedData", "encryptedKey", "iv"} |-> env[f]]),
          ColumnJson(ForeignEnvelope(data, key, iv)) }

\* a row in the calculate table before the call
StoreCalculateRow ==
    /\ pc = "idle"
    /\ handled.decrypt = 0
    /\ update = <<>>
    /\ Len(calculate) < MaxBatch
    /\ LET id == Len(calculate) + 1
       IN  \E data \in CalcPayloads(id), c \in Centres :
             \E encryptedData \in StoredColumns(data, DrawKey(id), DrawIv(id))
                                  \cup UnreadableColumns(data, DrawKey(id), DrawIv(id)) :
                calculate' = Append(calculate,
                                 [id |-> id, episodeType |-> "real",
                                  auditID |-> GenerateAuditID(id),
                                  patientHash |-> Str(RehashPatientHash("h1")),
                                  centre |-> c,
                                  clientDatetime |-> Str(StartOf(id)),
                                  serverDatetime |-> LastStamp + 1,
                                  retrospectiveAuditData |-> Null,
                                  retrospectivePatientHash |-> Null,
                                  encryptedData |-> encryptedData])
    /\ UNCHANGED <<cipherVars, update, decryptTbl, streamlined, httpVars, runVars>>

\* a row in the update table before the call: the n-th is of the n-th auditID
StoreUpdateRow ==
    /\ pc = "idle"
    /\ handled.decrypt = 0
    /\ Len(update) < MaxBatch
    /\ LET id == Len(update) + 1
       IN  \E data \in UpdPayloads :
             \E encryptedData \in StoredColumns(data, DrawKey(id), DrawIv(id))
                                  \cup {Null, ColumnGarbage, ColumnJson(Null)} :
                update' = Append(update,
                              [id |-> id, auditID |-> GenerateAuditID(id),
                               serverDatetime |-> LastStamp + 1,
                               encryptedData |-> encryptedData])
    /\ UNCHANGED <<cipherVars, calculate, decryptTbl, streamlined, httpVars, runVars>>

BatchInit ==
    /\ CipherInit
    /\ StoreInit
    /\ scope = BatchScope
    /\ handled = NoneHandled
    /\ request = NoRequest
    /\ hashing = {}
    /\ RunInit

BatchNext ==
    \/ StoreCalculateRow
    \/ StoreUpdateRow
    \/ Phase1
    \/ Phase2
    \/ OutputStreamlined

SpecBatch == BatchInit /\ [][BatchNext]_vars

(***************************************************************************)
(* SpecHashRace: requests to /addRetrospectivePatientHash in flight at the *)
(* same time.  The handler awaits checkID, tests what it returned, and     *)
(* awaits insertHashData: other requests are served between the two.       *)
(***************************************************************************)
\* one episode, and one more request for a hash than an episode can take
RaceScope ==
    [calculate |-> 1, update |-> 0, hash |-> MaxHash + 1, decrypt |-> 0, faults |-> 0]

\* the handler up to its call of insertHashData: it answers 401, or goes on
HashCheck ==
    /\ handled.hash < scope.hash
    /\ \E a \in AuditIDs, h \in PatientHashes, c \in Centres, d \in StartDates :
          LET rejection == HashRejection(CheckID(a), c, d)
          IN  IF rejection # 0
              THEN /\ request' = [route |-> "/addRetrospectivePatientHash",
                                  auditID |-> IntVal(a), patientHash |-> Str(h),
                                  status |-> rejection]
                   /\ hashing' = hashing
              ELSE /\ hashing' = hashing \cup {[n |-> handled.hash + 1, auditID |-> a,
                                                patientHash |-> h]}
                   /\ request' = request
    /\ handled' = [handled EXCEPT !.hash = @ + 1]
    /\ UNCHANGED <<cipherVars, storeVars, scope, runVars>>

\* insertHashData of a request that passed the checks, and the answer 200
HashWrite ==
    /\ \E r \in hashing :
          /\ calculate' = SetWhereAuditID(
                              SetWhereAuditID(calculate, r.auditID, "patientHash",
                                              Str(RehashPatientHash(r.patientHash))),
                              r.auditID, "retrospectivePatientHash", IntVal(LastStamp))
          /\ request' = [route |-> "/addRetrospectivePatientHash",
                         auditID |-> IntVal(r.auditID), patientHash |-> Str(r.patientHash),
                         status |-> 200]
          /\ hashing' = hashing \ {r}
    /\ UNCHANGED <<cipherVars, update, decryptTbl, streamlined, scope, handled, runVars>>

RaceInit ==
    /\ CipherInit
    /\ StoreInit
    /\ scope = RaceScope
    /\ handled = NoneHandled
    /\ request = NoRequest
    /\ hashing = {}
    /\ RunInit

RaceNext == Calculate \/ HashCheck \/ HashWrite

SpecHashRace == RaceInit /\ [][RaceNext]_vars

(***************************************************************************)
(* SpecStreamline: outputStreamlined over the decrypt tables that calls of *)
(* decryptTable leave behind, built row by row.  A row is that of a calculate row of its     *)
(* own, or one more row of an auditID that is in the table already (a      *)
(* later call inserted it again, with the patientNumber of that call); the *)
(* rows of one auditID carry the same audit columns; patientNumbers are    *)
(* given out from 1 upwards.                                               *)
(***************************************************************************)
MaxDec == 3      \* rows of the decrypt table

StartStrings ==
    {"2025-01-01T10:00:00Z", "2025-01-02T10:00:00Z", "2025-01-02T10:00:01Z", "not a date"}

\* the audit columns after phase 2 wrote update row id over them
SomeAudit(id) ==
    [auditTableID |-> IntVal(id), auditProtocolEndDatetime |-> Str("2025-01-01T11:30:00Z"),
     auditPreExistingDiabetes |-> True, auditEthnicGroup |-> Str("y"),
     auditCerebralOedemaConcern |-> False, auditServerDatetime |-> IntVal(9)]

\* the audit columns after phase 2 wrote an update row that says false for
\* preExistingDiabetes and has no ethnicGroup
FalsyAudit(id) ==
    [auditTableID |-> IntVal(id), auditProtocolEndDatetime |-> Str("2025-01-01T11:30:00Z"),
     auditPreExistingDiabetes |-> False, auditEthnicGroup |-> Null,
     auditCerebralOedemaConcern |-> False, auditServerDatetime |-> IntVal(9)]

RECURSIVE MaxNumber(_)
MaxNumber(table) ==
    IF table = <<>> THEN 0
    ELSE LET m == MaxNumber(Tail(table))
             p == Head(table).patientNumber
         IN  IF p # Null /\ p.n > m THEN p.n ELSE m

DistinctAuditIDs(table) == {table[i].auditID : i \in 1..Len(table)}

\* the rows that can come next in a decrypt table
NextRows(table) ==
    LET id == Cardinality(DistinctAuditIDs(table)) + 1
        numbers == {IntVal(n) : n \in 1..(MaxNumber(table) + 1)}
    IN  { [id |-> id, episodeType |-> "real", auditID |-> GenerateAuditID(id),
           patientNumber |-> p, centre |-> "c1", serverDatetime |-> sd,
           protocolStartDatetime |-> Str(s), preExistingDiabetes |-> True,
           ethnicGroup |-> Str("x"), audit |-> a] :
             p \in {Null} \cup numbers, sd \in {1, 2},
             s \in StartStrings, a \in {NoAudit, SomeAudit(id), FalsyAudit(id)} }
        \cup
        { [table[j] EXCEPT !.patientNumber = p] :
             j \in {i \in 1..Len(table) : table[i].patientNumber # Null}, p \in numbers }
        \cup
        { table[j] : j \in {i \in 1..Len(table) : table[i].patientNumber = Null} }

\* a call of decryptTable has left one more row in the decrypt table
InsertDecryptRow ==
    /\ pc = "streamline"
    /\ Len(decryptTbl) < MaxDec
    /\ \E row \in NextRows(decryptTbl) : decryptTbl' = Append(decryptTbl, row)
    /\ UNCHANGED <<cipherVars, calculate, update, streamlined, httpVars, runVars>>

StreamlineInit ==
    /\ CipherInit
    /\ StoreInit
    /\ HttpIdle
    /\ pc = "streamline"
    /\ run = NoRun
    /\ patientHashMap = <<>>
    /\ readRows = <<>>
    /\ emitted = <<>>
    /\ runs = <<>>

StreamlineNext == InsertDecryptRow \/ OutputStreamlined

SpecStreamline == StreamlineInit /\ [][StreamlineNext]_vars

(***************************************************************************)
(* Claims about decryptTable (Spec).                                       *)
(***************************************************************************)
\* the rows phase 1 of the last call inserted: the decrypt table past what the
\* call found in it
InsertedRows == SubSeq(decryptTbl, Len(run.before) + 1, Len(decryptTbl))

\* the patientHash of the calculate row of an auditID
HashOf(auditID) ==
    calculate[CHOOSE i \in 1..Len(calculate) : calculate[i].auditID = auditID].patientHash

\* C4: within one call of decryptTable, two calculate rows with the same non-null
\* patientHash get the same patientNumber, and two with different non-null
\* patientHashes get different patientNumbers (the hashes are those the
\* calculate rows have when the call reads them).
C4_PatientNumberStable ==
    [][handled'.decrypt = handled.decrypt + 1 =>
          \A i, j \in (Len(decryptTbl) + 1)..Len(decryptTbl') :
              LET a == decryptTbl'[i]
                  b == decryptTbl'[j]
              IN  (HashOf(a.auditID) # Null /\ HashOf(b.auditID) # Null) =>
                      /\ a.patientNumber # Null
                      /\ b.patientNumber # Null
                      /\ (HashOf(a.auditID) = HashOf(b.auditID))
                            <=> (a.patientNumber = b.patientNumber)]_vars

\* one call inserted two episodes of one patient, both with the first number
C4_Witness ==
    /\ pc = "phase2"
    /\ Len(InsertedRows) = 2
    /\ InsertedRows[1].auditID # InsertedRows[2].auditID
    /\ HashOf(InsertedRows[1].auditID) # Null
    /\ HashOf(InsertedRows[1].auditID) = HashOf(InsertedRows[2].auditID)
    /\ InsertedRows[1].patientNumber = IntVal(1)
    /\ InsertedRows[2].patientNumber = IntVal(1)

OneRowPerAuditID(table) ==
    \A i, j \in 1..Len(table) : table[i].auditID = table[j].auditID => i = j

\* C5: two complete calls of decryptTable with the same arguments, with no new
\* calculate or update row between them, leave the decrypt table as the first call
\* left it, with one row for each auditID.
C5_Idempotent ==
    \A i \in 1..(Len(runs) - 1) :
        LET first == runs[i]
            second == runs[i + 1]
        IN  (/\ first.decryptID = second.decryptID
             /\ first.centre = second.centre
             /\ first.calculateRows = second.calculateRows
             /\ first.updateRows = second.updateRows
             /\ second.before = first.after)
            => (second.after = first.after /\ OneRowPerAuditID(second.after))

(***************************************************************************)
(* Claims about outputStreamlined (SpecStreamline).  They are stated over  *)
(* the rows the call read and the rows it inserted.                        *)
(***************************************************************************)
\* the patientNumbers among the rows read
NumbersRead ==
    {readRows[i].patientNumber.n :
        i \in {k \in 1..Len(readRows) : readRows[k].patientNumber # Null}}

\* the patient group of a number, and what was emitted for it
GroupRead(n) == SelectSeq(readRows, LAMBDA r : r.patientNumber = IntVal(n))
EmittedFor(n) == SelectSeq(emitted, LAMBDA e : e.from.patientNumber = IntVal(n))

\* the parseable protocolStartDatetimes of a group, in seconds
ParseableTimes(n) ==
    {NewDate(GroupRead(n)[i].protocolStartDatetime).time :
        i \in {k \in 1..Len(GroupRead(n)) :
                  NewDate(GroupRead(n)[k].protocolStartDatetime).valid}}

NumParseable(n) ==
    Cardinality({k \in 1..Len(GroupRead(n)) :
                    NewDate(GroupRead(n)[k].protocolStartDatetime).valid})

\* latest minus earliest parseable protocolStartDatetime, in seconds
SpanSeconds(n) ==
    LET times == ParseableTimes(n)
    IN  (CHOOSE t \in times : \A u \in times : u <= t)
        - (CHOOSE t \in times : \A u \in times : t <= u)

HasAudit(r) == r.audit.auditTableID # Null

OwnGrade(r) == IF HasAudit(r) THEN "A" ELSE "B"

\* how often x occurs in a sequence
Count(seq, x) == Cardinality({i \in 1..Len(seq) : seq[i] = x})

\* C6: a record with a patientNumber is emitted with dataGrade A when its
\* auditTableID is not null and B when it is null; every record without a
\* patientNumber is emitted, with dataGrade C.
C6_Grades ==
    /\ \A i \in 1..Len(emitted) :
          LET e == emitted[i]
          IN  /\ e.row.auditID = e.from.auditID
              /\ Count(readRows, e.from) >= 1
              /\ e.from.patientNumber # Null => e.row.dataGrade = OwnGrade(e.from)
              /\ e.from.patientNumber = Null => e.row.dataGrade = "C"
    /\ \A i \in 1..Len(readRows) :
          readRows[i].patientNumber = Null =>
              Count([k \in 1..Len(emitted) |-> emitted[k].from], readRows[i])
                  = Count(readRows, readRows[i])

\* one call emitted a record of each grade, the one of grade C for a record that
\* has audit data
C6_Witness ==
    /\ \E i \in 1..Len(emitted) :
          emitted[i].row.dataGrade = "A" /\ HasAudit(emitted[i].from)
    /\ \E i \in 1..Len(emitted) :
          /\ emitted[i].row.dataGrade = "B"
          /\ ~HasAudit(emitted[i].from) /\ emitted[i].from.patientNumber # Null
    /\ \E i \in 1..Len(emitted) :
          /\ emitted[i].row.dataGrade = "C"
          /\ emitted[i].from.patientNumber = Null /\ HasAudit(emitted[i].from)

\* C7: a group whose earliest and latest parseable protocolStartDatetime are 24
\* hours apart or less is collapsed to one emitted record; a group whose span is 24
\* hours and one second or more is not collapsed.
C7_WindowBoundary ==
    \A n \in NumbersRead :
        NumParseable(n) >= 1 =>
            /\ SpanSeconds(n) <= 24 * 60 * 60 => Len(EmittedFor(n)) = 1
            /\ SpanSeconds(n) >= 24 * 60 * 60 + 1 =>
                  Len(EmittedFor(n)) = Len(GroupRead(n))

\* a group of two records exactly 24 hours apart was collapsed
C7_Witness ==
    \E n \in NumbersRead :
        /\ Len(GroupRead(n)) = 2
        /\ NumParseable(n) = 2
        /\ SpanSeconds(n) = 24 * 60 * 60
        /\ Len(EmittedFor(n)) = 1

\* C8: the record emitted for a collapsed group is a first of the group in the
\* order (has audit data, serverDatetime) descending: no record of the group with
\* audit data loses to one without, and among records of equal audit status none
\* has a later serverDatetime than the emitted one.
C8_Ranking ==
    \A n \in NumbersRead :
        (Len(GroupRead(n)) >= 2 /\ Len(EmittedFor(n)) = 1) =>
            LET winner == EmittedFor(n)[1].from
            IN  /\ Count(GroupRead(n), winner) >= 1
                /\ \A i \in 1..Len(GroupRead(n)) :
                      LET r == GroupRead(n)[i]
                      IN  /\ HasAudit(r) => HasAudit(winner)
                          /\ HasAudit(r) = HasAudit(winner) =>
                                r.serverDatetime <= winner.serverDatetime

\* an older record with audit data was emitted for a group that has a newer record
\* without
C8_Witness ==
    \E n \in NumbersRead :
        /\ Len(GroupRead(n)) >= 2
        /\ Len(EmittedFor(n)) = 1
        /\ HasAudit(EmittedFor(n)[1].from)
        /\ \E i \in 1..Len(GroupRead(n)) :
              /\ ~HasAudit(GroupRead(n)[i])
              /\ GroupRead(n)[i].serverDatetime > EmittedFor(n)[1].from.serverDatetime

\* C9: for a group of n >= 2 records within the window exactly one record is
\* emitted, and its deduplicatedAuditIDs are the auditIDs of the n - 1 records not
\* emitted; for a group of one record, and for a group emitted in full, the field is
\* null.
C9_DeduplicatedAuditIDs ==
    \A n \in NumbersRead :
        LET group == GroupRead(n)
            out == EmittedFor(n)
        IN  /\ (Len(group) >= 2 /\ NumParseable(n) >= 1 /\ SpanSeconds(n) <= 24 * 60 * 60) =>
                  /\ Len(out) = 1
                  /\ out[1].row.deduplicatedAuditIDs # Null
                  /\ Len(out[1].row.deduplicatedAuditIDs.list) = Len(group) - 1
                  /\ \A i \in 1..Len(group) :
                        Count(out[1].row.deduplicatedAuditIDs.list, group[i].auditID)
                          = Count([k \in 1..Len(group) |-> group[k].auditID], group[i].auditID)
                            - (IF group[i].auditID = out[1].from.auditID THEN 1 ELSE 0)
            /\ (Len(group) = 1 \/ Len(out) = Len(group)) =>
                  \A i \in 1..Len(out) : out[i].row.deduplicatedAuditIDs = Null

\* C10: when the parseable protocolStartDatetimes of a group span more than 24
\* hours, every record of the group is emitted, unmerged, each with the grade its
\* own auditTableID gives it, also when some of its records lie less than 24 hours
\* apart.
C10_SpanOverWindow ==
    \A n \in NumbersRead :
        (NumParseable(n) >= 2 /\ SpanSeconds(n) > 24 * 60 * 60) =>
            /\ Len(EmittedFor(n)) = Len(GroupRead(n))
            /\ \A i \in 1..Len(GroupRead(n)) :
                  LET e == EmittedFor(n)[i]
                  IN  /\ e.from = GroupRead(n)[i]
                      /\ e.row.auditID = e.from.auditID
                      /\ e.row.protocolStartDatetime = e.from.protocolStartDatetime
                      /\ e.row.dataGrade = OwnGrade(e.from)
                      /\ e.row.deduplicatedAuditIDs = Null

\* a group of three spanning 24 hours and one second, two of its records one second
\* apart, was emitted in full, one record graded A and one graded B
C10_Witness ==
    \E n \in NumbersRead :
        /\ Len(GroupRead(n)) = 3
        /\ NumParseable(n) = 3
        /\ SpanSeconds(n) = 24 * 60 * 60 + 1
        /\ Cardinality(ParseableTimes(n)) = 3
        /\ Len(EmittedFor(n)) = Len(GroupRead(n))
        /\ \E i, j \in 1..Len(EmittedFor(n)) :
              /\ EmittedFor(n)[i].row.dataGrade = "A"
              /\ EmittedFor(n)[j].row.dataGrade = "B"

\* the records of the group have auditIDs of their own
DistinctInGroup(n) ==
    \A i, j \in 1..Len(GroupRead(n)) :
        GroupRead(n)[i].auditID = GroupRead(n)[j].auditID => i = j

\* C11: of a group of two or more records of which fewer than two have a parseable
\* protocolStartDatetime (one, or none), exactly one record is emitted, and its
\* deduplicatedAuditIDs list the auditIDs of the others.
C11_FewParseableCollapse ==
    \A n \in NumbersRead :
        (Len(GroupRead(n)) >= 2 /\ NumParseable(n) < 2 /\ DistinctInGroup(n)) =>
            /\ Len(EmittedFor(n)) = 1
            /\ EmittedFor(n)[1].row.deduplicatedAuditIDs # Null
            /\ {EmittedFor(n)[1].row.deduplicatedAuditIDs.list[k] :
                    k \in 1..Len(EmittedFor(n)[1].row.deduplicatedAuditIDs.list)}
                 = {GroupRead(n)[i].auditID : i \in 1..Len(GroupRead(n))}
                       \ {EmittedFor(n)[1].from.auditID}

\* C12: the preExistingDiabetes and the ethnicGroup exported for a record with a
\* patientNumber are the audit values whenever those are not null, false and the
\* empty string included, and the calculate values only when the audit values are
\* null.
C12_UpdateValueWins ==
    \A i \in 1..Len(emitted) :
        LET e == emitted[i]
        IN  e.from.patientNumber # Null =>
                /\ e.row.preExistingDiabetes
                     = IF e.from.audit.auditPreExistingDiabetes # Null
                       THEN e.from.audit.auditPreExistingDiabetes
                       ELSE e.from.preExistingDiabetes
                /\ e.row.ethnicGroup
                     = IF e.from.audit.auditEthnicGroup # Null
                       THEN e.from.audit.auditEthnicGroup
                       ELSE e.from.ethnicGroup

(***************************************************************************)
(* Claims about the requests and the calls of decrypt() (Spec).            *)
(***************************************************************************)
\* the record in the envelope of a calculate or update row
PayloadOf(row) ==
    DecryptData(Get(row.encryptedData.obj, "encryptedKey"),
                Get(row.encryptedData.obj, "encryptedData"),
                Get(row.encryptedData.obj, "iv"),
                Get(row.encryptedData.obj, "authTag")).value

\* Two episodes of one patient, starting at 10:00 and at 11:30, the first with
\* one update that reports a concern of cerebral oedema, and one complete call of
\* decrypt() without arguments that read all of them into an empty decrypt table.
ScenarioRun ==
    /\ pc = "idle"
    /\ run.result = "resolved"
    /\ handled.decrypt = 1
    /\ run.decryptID = Undefined /\ run.centre = Undefined
    /\ run.before = <<>>
    /\ run.calculateRows = 2
    /\ Len(runs) = 1 /\ runs[1].updateRows = 1
    /\ Truthy(calculate[1].patientHash)
    /\ calculate[1].patientHash = calculate[2].patientHash
    /\ PayloadOf(calculate[1]).protocolStartDatetime = Str("2025-01-01T10:00:00Z")
    /\ PayloadOf(calculate[2]).protocolStartDatetime = Str("2025-01-01T11:30:00Z")
    /\ update[1].auditID = calculate[1].auditID
    /\ PayloadOf(update[1]).cerebralOedemaConcern = True

\* C13: after the scenario the decrypt row of the first episode has an
\* auditTableID and auditCerebralOedemaConcern true, and exactly one record is
\* emitted for the patient: that of the first episode, with dataGrade A and the
\* auditID of the second episode as its deduplicatedAuditIDs.
C13_Scenario ==
    ScenarioRun =>
        LET first == calculate[1].auditID
            second == calculate[2].auditID
            rows == SelectSeq(decryptTbl, LAMBDA r : r.auditID = first)
        IN  /\ Len(rows) = 1
            /\ rows[1].audit.auditTableID # Null
            /\ rows[1].audit.auditCerebralOedemaConcern = True
            /\ rows[1].patientNumber # Null
            /\ Len(emitted) = 1
            /\ Len(streamlined) = 1
            /\ streamlined[1] = emitted[1].row
            /\ emitted[1].row.patientNumber = rows[1].patientNumber
            /\ emitted[1].row.auditID = first
            /\ emitted[1].row.dataGrade = "A"
            /\ emitted[1].row.cerebralOedemaConcern = True
            /\ emitted[1].row.deduplicatedAuditIDs = [t |-> "json", list |-> <<second>>]

\* the scenario has run
C13_Witness == ScenarioRun /\ Len(streamlined) = 1

\* a calculate row without its two markers, and without its patientHash as well
WithoutMarkers(row) ==
    [row EXCEPT !.retrospectiveAuditData = Null, !.retrospectivePatientHash = Null]
WithoutMarkersAndHash(row) == [WithoutMarkers(row) EXCEPT !.patientHash = Null]

\* C14 as stated: no step changes a field of an existing calculate row other than
\* retrospectiveAuditData and retrospectivePatientHash.
C14_ImmutableExceptMarkers ==
    [][\A i \in 1..Len(calculate) :
          /\ i <= Len(calculate')
          /\ WithoutMarkers(calculate'[i]) = WithoutMarkers(calculate[i])]_vars

\* C14: no step changes a field of an existing calculate row other than
\* retrospectiveAuditData, retrospectivePatientHash and patientHash, and the
\* patientHash changes only from null to a hash, in a step that sets
\* retrospectivePatientHash.
C14_ImmutableExceptHashAdded ==
    [][\A i \in 1..Len(calculate) :
          /\ i <= Len(calculate')
          /\ WithoutMarkersAndHash(calculate'[i]) = WithoutMarkersAndHash(calculate[i])
          /\ calculate'[i].patientHash # calculate[i].patientHash =>
                /\ calculate[i].patientHash = Null
                /\ calculate'[i].patientHash # Null
                /\ calculate'[i].retrospectivePatientHash # Null
                /\ handled'.hash = handled.hash + 1]_vars

\* an episode stored without a patient hash was given one, and then an update
C14_Witness ==
    \E i \in 1..Len(calculate) :
        /\ calculate[i].patientHash # Null
        /\ calculate[i].retrospectivePatientHash # Null
        /\ calculate[i].retrospectiveAuditData # Null

\* the writes a phase completed before its op-th store operation failed
WritesBefore(op) == IF op >= 2 THEN op - 2 ELSE 0

\* C15: when a store operation of a call of decrypt() fails, the promise of the
\* call rejects and the call does nothing more: no later phase is pending, the
\* phase that failed wrote what it had written before the failing operation and
\* nothing after it, and a failure in phase 1 or phase 2 leaves the streamlined
\* table as the call found it.
C15_FailureEndsRun ==
    /\ run.failed # NoFailure => run.result = "rejected"
    /\ run.result = "rejected" =>
          /\ pc = "idle"
          /\ run.failed.phase = "phase1" =>
                /\ Len(decryptTbl) = Len(run.before) + WritesBefore(run.failed.op)
                /\ SubSeq(decryptTbl, 1, Len(run.before)) = run.before
                /\ Len(streamlined) = run.streamlinedRows
          /\ run.failed.phase = "phase2" =>
                /\ Cardinality(run.merged) = WritesBefore(run.failed.op)
                /\ Len(streamlined) = run.streamlinedRows
          /\ run.failed.phase = "streamline" =>
                Len(streamlined) = run.streamlinedRows + WritesBefore(run.failed.op)

\* the first INSERT of phase 1 failed in a call that had two episodes to copy:
\* neither is in the decrypt table, and nothing was streamlined
C15_Witness ==
    /\ run.result = "rejected"
    /\ run.failed = [phase |-> "phase1", op |-> 2]
    /\ run.decryptID = Undefined /\ run.centre = Undefined
    /\ run.calculateRows = 2
    /\ decryptTbl = <<>>
    /\ streamlined = <<>>

\* C16: GET /decrypt answers 500 when the call of decrypt() fails, and 200 only
\* when it does not.
C16_DecryptStatus ==
    /\ run.result = "rejected" => run.status = 500
    /\ run.status = 200 => run.result # "rejected"

\* the request to /update just handled meets the three conditions
UpdateVerified ==
    LET check == CheckID(request'.auditID.n)
    IN  /\ check # Null
        /\ check.patientHash # Null
        /\ check.patientHash = Str(RehashPatientHash(request'.patientHash.v))

\* C17: an update row is inserted, and the retrospectiveAuditData of a calculate
\* row is changed, only by a request to /update that names an existing calculate
\* row with a patientHash that equals the rehash of the submitted hash; any other
\* request to /update leaves both tables as they are.
C17_UpdateOnlyIfVerified ==
    [][/\ (\/ update' # update
           \/ \E i \in 1..Len(calculate) :
                 calculate'[i].retrospectiveAuditData # calculate[i].retrospectiveAuditData)
          => (handled'.update = handled.update + 1 /\ UpdateVerified)
       /\ (handled'.update = handled.update + 1 /\ ~UpdateVerified)
          => (update' = update /\ calculate' = calculate /\ request'.status # 200)]_vars

\* after an update was stored, a second request for the same episode with
\* another patient's hash was answered 401 and stored nothing
C17_Witness ==
    /\ request.route = "/update"
    /\ request.status = 401
    /\ handled.update = 2
    /\ Len(update) = 1
    /\ update[1].auditID = request.auditID.n
    /\ CheckID(request.auditID.n).patientHash # Str(RehashPatientHash(request.patientHash.v))

\* C18: a request to /calculate that is answered 400 stores no calculate row.
C18_RejectedCalculateStoresNothing ==
    [][(handled'.calculate = handled.calculate + 1 /\ request'.status = 400)
          => calculate' = calculate]_vars

\* C19: in a call of decryptTable phase 2 writes at most one update row of an
\* auditID into the decrypt table, one with the greatest serverDatetime of the
\* auditID, and two calls with the same arguments over the same calculate and
\* update rows leave the same update row in the decrypt rows of an auditID.
C19_OneLatestUpdate ==
    /\ \A k \in 1..Len(runs) :
          \A i, j \in runs[k].merged :
              /\ update[i].auditID = update[j].auditID => i = j
              /\ \A u \in 1..runs[k].updateRows :
                    update[u].auditID = update[i].auditID =>
                        update[u].serverDatetime <= update[i].serverDatetime
    /\ \A k, l \in 1..Len(runs) :
          (/\ runs[k].decryptID = runs[l].decryptID
           /\ runs[k].centre = runs[l].centre
           /\ runs[k].calculateRows = runs[l].calculateRows
           /\ runs[k].updateRows = runs[l].updateRows) =>
              \A i \in 1..Len(runs[k].after), j \in 1..Len(runs[l].after) :
                  runs[k].after[i].auditID = runs[l].after[j].auditID =>
                      runs[k].after[i].audit.auditTableID
                          = runs[l].after[j].audit.auditTableID

\* the decrypt row is one the arguments of the call select
Selected(row, decryptID, centre) ==
    /\ Truthy(decryptID) => row.auditID = decryptID.n
    /\ Truthy(centre) => row.centre = centre.v

\* C20: a call of decryptTable leaves the decrypt rows it found unchanged when
\* they are of an auditID or a centre other than those its arguments select.
C20_Phase2Filtered ==
    \A k \in 1..Len(runs) :
        \A i \in 1..Len(runs[k].before) :
            ~Selected(runs[k].before[i], runs[k].decryptID, runs[k].centre) =>
                runs[k].after[i] = runs[k].before[i]

\* the update row whose id the decrypt row carries as its auditTableID
MergedUpdate(row) == update[row.audit.auditTableID.n]

\* C21: a decrypt row that an update was merged into has as its
\* auditProtocolEndDatetime the protocolEndDatetime of the update when the update
\* carries one, and the protocolStartDatetime of its episode when it does not.
C21_EndDatetimeFallback ==
    \A i \in 1..Len(decryptTbl) :
        LET row == decryptTbl[i]
        IN  row.audit.auditTableID # Null =>
                LET protocolEndDatetime ==
                        Get(PayloadOf(MergedUpdate(row)), "protocolEndDatetime")
                IN  IF Truthy(protocolEndDatetime)
                    THEN row.audit.auditProtocolEndDatetime = protocolEndDatetime
                    ELSE /\ row.audit.auditProtocolEndDatetime # Null
                         /\ row.audit.auditProtocolEndDatetime = row.protocolStartDatetime

\* C24: phase 1 gives the decrypt row of a calculate row with a null patientHash
\* a null patientNumber, and the decrypt row of a calculate row with a non-null
\* patientHash a non-null patientNumber.
C24_NumberIffHash ==
    [][handled'.decrypt = handled.decrypt + 1 =>
          \A i \in (Len(decryptTbl) + 1)..Len(decryptTbl') :
              (HashOf(decryptTbl'[i].auditID) = Null)
                  <=> (decryptTbl'[i].patientNumber = Null)]_vars

\* one call copied an episode without a patientHash and an episode with one
C24_Witness ==
    /\ pc = "phase2"
    /\ scope.hash = 0
    /\ Len(InsertedRows) = 2
    /\ HashOf(InsertedRows[1].auditID) = Null
    /\ InsertedRows[1].patientNumber = Null
    /\ HashOf(InsertedRows[2].auditID) # Null
    /\ InsertedRows[2].patientNumber = IntVal(1)

\* some decrypt row the step found has other audit columns after it
MergesInStep ==
    \E i \in 1..Len(decryptTbl) :
        i <= Len(decryptTbl') /\ decryptTbl'[i].audit # decryptTbl[i].audit

\* C26: the phases of one call of decrypt() run in the order phase 1, phase 2,
\* outputStreamlined: rows are inserted into the decrypt table only by phase 1,
\* which opens the call; update rows are merged only by a phase 2 that follows
\* the whole of phase 1 of the same call; and the decrypt table is read for
\* streamlining, and streamlined rows are written, only after the whole of phase
\* 2 of the same call.
C26_PhaseOrder ==
    /\ [](\E n \in 0..3 : run.phases = SubSeq(<<"phase1", "phase2", "streamline">>, 1, n))
    /\ [][/\ Len(decryptTbl') # Len(decryptTbl) => run'.phases = <<"phase1">>
          /\ MergesInStep => run'.phases = <<"phase1", "phase2">>
          /\ (readRows' # readRows \/ streamlined' # streamlined \/ emitted' # emitted)
                => run'.phases = <<"phase1", "phase2", "streamline">>]_vars

\* a call has inserted a row, merged an update into it and streamlined it
C26_Witness ==
    /\ run.phases = <<"phase1", "phase2", "streamline">>
    /\ Len(decryptTbl) > Len(run.before)
    /\ run.merged # {}
    /\ Len(emitted) > 0
    /\ emitted[1].row.dataGrade = "A"

\* C27: two rows of the decrypt table with the same non-null patientNumber are
\* of calculate rows with the same patientHash.
C27_NumberMeansPatient ==
    \A i, j \in 1..Len(decryptTbl) :
        (/\ decryptTbl[i].patientNumber # Null
         /\ decryptTbl[i].patientNumber = decryptTbl[j].patientNumber)
            => HashOf(decryptTbl[i].auditID) = HashOf(decryptTbl[j].auditID)

\* the emitted records that are of the auditID, and those that list it
EmittedAs(auditID) == {k \in 1..Len(emitted) : emitted[k].row.auditID = auditID}
ListedBy(auditID) ==
    {k \in 1..Len(emitted) :
        LET ids == emitted[k].row.deduplicatedAuditIDs
        IN  ids # Null /\ \E m \in 1..Len(ids.list) : ids.list[m] = auditID}

\* C28: after a complete call of outputStreamlined every row it read is in the
\* output exactly once: its auditID is that of one emitted record, or is in the
\* deduplicatedAuditIDs of one emitted record of the same patientNumber, and not
\* both.
C28_Conservation ==
    (run.result = "resolved" /\ pc = "idle") =>
        \A i \in 1..Len(readRows) :
            LET auditID == readRows[i].auditID
            IN  /\ Cardinality(EmittedAs(auditID)) + Cardinality(ListedBy(auditID)) = 1
                /\ \A k \in ListedBy(auditID) :
                      emitted[k].row.patientNumber = readRows[i].patientNumber

\* C30: a row of the decrypt table with a null patientNumber has a null
\* auditTableID.
C30_AnonymousHasNoAudit ==
    \A i \in 1..Len(decryptTbl) :
        decryptTbl[i].patientNumber = Null => decryptTbl[i].audit.auditTableID = Null

(***************************************************************************)
(* Claims about rows that cannot be opened (SpecBatch).                    *)
(***************************************************************************)
\* the row has an envelope that decryptData opens
Readable(row) ==
    /\ row.encryptedData # Null
    /\ row.encryptedData.json
    /\ row.encryptedData.obj # Null
    /\ DecryptData(Get(row.encryptedData.obj, "encryptedKey"),
                   Get(row.encryptedData.obj, "encryptedData"),
                   Get(row.encryptedData.obj, "iv"),
                   Get(row.encryptedData.obj, "authTag")).value # Null

\* the step is phase 1, or phase 2, of a call
IsPhase1Step == handled'.decrypt = handled.decrypt + 1
IsPhase2Step == pc = "phase2" /\ pc' # "phase2"

\* the decrypt table phase 1 leaves when it is given the rows only
AfterPhase1Of(rows) ==
    Phase1Rows(rows, [map |-> <<>>, table |-> decryptTbl, threw |-> FALSE,
                      ops |-> 1, failAt |-> 0]).table

\* the decrypt table phase 2 leaves when it is given the rows only
AfterPhase2Of(rows) ==
    Phase2Rows(rows, [table |-> decryptTbl, threw |-> FALSE, ops |-> 1,
                      failAt |-> 0, merged |-> {}]).table

\* C25: a phase of decryptTable that meets rows whose envelope is missing or
\* cannot be opened does not end the call, and leaves the decrypt table as it
\* would leave it if it had been given the other rows only.
C25_FailureIsolation ==
    [][/\ IsPhase1Step =>
             /\ run'.result # "rejected"
             /\ decryptTbl' = AfterPhase1Of(SelectSeq(
                                  SelectCalculate(run'.decryptID, run'.centre), Readable))
       /\ IsPhase2Step =>
             /\ run'.result # "rejected"
             /\ \E rows \in Orders(SelectLatestUpdates(run.decryptID)) :
                   decryptTbl' = AfterPhase2Of(SelectSeq(rows, Readable))]_vars

\* the rows of the table that are of the auditID
RowsOf(table, auditID) == SelectSeq(table, LAMBDA r : r.auditID = auditID)

\* C23: phase 1, run on an empty decrypt table, inserts one row with a null
\* auditTableID for each calculate row that the arguments select and whose
\* envelope opens, and no row for any other calculate row; phase 2 inserts no
\* row.
C23_OneRowPerReadable ==
    [][/\ (IsPhase1Step /\ decryptTbl = <<>>) =>
             /\ \A i \in 1..Len(calculate) :
                   Len(RowsOf(decryptTbl', calculate[i].auditID)) =
                       IF /\ Selected(calculate[i], run'.decryptID, run'.centre)
                          /\ Readable(calculate[i])
                       THEN 1 ELSE 0
             /\ \A j \in 1..Len(decryptTbl') :
                   /\ decryptTbl'[j].audit = NoAudit
                   /\ \E i \in 1..Len(calculate) :
                         decryptTbl'[j].auditID = calculate[i].auditID
       /\ IsPhase2Step => Len(decryptTbl') = Len(decryptTbl)]_vars

\* the latest update rows of the auditID among the first n rows of the table
LatestOf(auditID, n) ==
    {u \in 1..n :
        /\ update[u].auditID = auditID
        /\ \A v \in 1..n : update[v].auditID = auditID =>
              update[v].serverDatetime <= update[u].serverDatetime}

\* C22: after a complete call of decryptTable, a decrypt row the call inserted
\* has a non-null auditTableID if and only if a latest update row of its auditID
\* opens; the auditTableID of any row is the id of an update row of its auditID
\* that opens; and a row with a null auditTableID has no audit column set.
C22_AuditTableIDIffMerged ==
    \A k \in 1..Len(runs) :
        \A i \in 1..Len(runs[k].after) :
            LET row == runs[k].after[i]
            IN  /\ i > Len(runs[k].before) =>
                      (row.audit.auditTableID # Null
                          <=> \E u \in LatestOf(row.auditID, runs[k].updateRows) :
                                  Readable(update[u]))
                /\ row.audit.auditTableID # Null =>
                      /\ row.audit.auditTableID.n \in 1..runs[k].updateRows
                      /\ MergedUpdate(row).auditID = row.auditID
                      /\ Readable(MergedUpdate(row))
                /\ row.audit.auditTableID = Null => row.audit = NoAudit

\* a call copied two episodes: the update of the first opens and was merged, the
\* update of the second has a changed ciphertext and was not
C22_Witness ==
    /\ Len(runs) = 1
    /\ Len(runs[1].after) = 2
    /\ Len(update) = 2
    /\ Readable(update[1]) /\ ~Readable(update[2])
    /\ update[2].encryptedData # Null /\ update[2].encryptedData.json
    /\ runs[1].after[1].audit.auditTableID = IntVal(1)
    /\ runs[1].after[2].auditID = update[2].auditID
    /\ runs[1].after[2].audit = NoAudit

(***************************************************************************)
(* Claims about requests in flight together (SpecHashRace).                *)
(***************************************************************************)
\* C29: whatever the order in which the steps of requests to
\* /addRetrospectivePatientHash are served, the patientHash of a calculate row
\* changes only when it is null, and only to the hash of a request that named the
\* centre and the date of the row.
C29_HashWrittenOnce ==
    [][\A i \in 1..Len(calculate) :
          calculate'[i].patientHash # calculate[i].patientHash =>
              /\ calculate[i].patientHash = Null
              /\ request'.route = "/addRetrospectivePatientHash"
              /\ request'.status = 200
              /\ request'.auditID = IntVal(calculate[i].auditID)
              /\ calculate'[i].patientHash = Str(RehashPatientHash(request'.patientHash.v))]_vars

=============================================================================
